---- MODULE Spec2Model ----
(***************************************************************************)
(* A model of the hq expression evaluator (pkg/eval, pkg/types, pkg/parser).*)
(*                                                                         *)
(* Values are tagged records.  Numbers are modelled as integers (documents *)
(* and literals both carry float64 in the Go code, so there is one numeric *)
(* type).  A Go map[string]any is a function from a set of keys to values; *)
(* the order in which Go ranges over a map is not specified, and is one    *)
(* nondeterministically chosen permutation (the variable mapOrder).        *)
(***************************************************************************)
EXTENDS Integers, Sequences, FiniteSets, TLC

VARIABLES
    pc,        \* "ready" before Evaluate is called, "done" after it returned
    expr,      \* the parsed expression (AST) handed to evaluate
    input,     \* the input document
    mapOrder,  \* the order in which this run ranges over map keys
    result,    \* what evaluate returned: [out, err, vars]
    heap,      \* memory model: backing arrays of the Go slices, by address
    root,      \* memory model: the slice header of the input document
    cur,       \* memory model: the slice header of the current value
    root0,     \* memory model: the input document's value before evaluation
    steps      \* memory model: number of operations applied so far

vars == <<pc, expr, input, mapOrder, result, heap, root, cur, root0, steps>>

(***************************************************************************)
(* Values                                                                  *)
(***************************************************************************)
Null == [k |-> "null"]
Bool(b) == [k |-> "bool", b |-> b]
Num(n) == [k |-> "num", n |-> n]
Str(s) == [k |-> "str", s |-> s]
Arr(e) == [k |-> "arr", e |-> e]
Obj(m) == [k |-> "obj", m |-> m]

EmptyMap == [x \in {} |-> Null]

IsNull(v) == v.k = "null"
IsNum(v) == v.k = "num"
IsStr(v) == v.k = "str"
IsArr(v) == v.k = "arr"
IsObj(v) == v.k = "obj"

\* results of the value-level helpers: a value or an error
Good(v) == [err |-> "none", v |-> v]
Bad == [err |-> "fail", v |-> Null]
Panic == [err |-> "panic", v |-> Null]

\* the keys of map m in the order this run ranges over them
RangeKeys(m) == SelectSeq(mapOrder, LAMBDA key : key \in DOMAIN m)

RECURSIVE SeqMap(_, _)
SeqMap(Op(_), s) == IF s = <<>> THEN <<>> ELSE <<Op(Head(s))>> \o SeqMap(Op, Tail(s))

RECURSIVE Flatten(_)
Flatten(ss) == IF ss = <<>> THEN <<>> ELSE Head(ss) \o Flatten(Tail(ss))

(***************************************************************************)
(* Operators on values (evaluator.go)                                      *)
(***************************************************************************)
isTruthy(v) ==
    IF IsNull(v) THEN FALSE
    ELSE IF v.k = "bool" THEN v.b
    ELSE TRUE

\* equals compares scalars only: two lists or two maps are never equal
equals(left, right) ==
    IF IsNull(left) /\ IsNull(right) THEN TRUE
    ELSE IF IsNull(left) \/ IsNull(right) THEN FALSE
    ELSE IF IsNum(left) THEN IsNum(right) /\ left.n = right.n
    ELSE IF IsStr(left) THEN IsStr(right) /\ left.s = right.s
    ELSE IF left.k = "bool" THEN right.k = "bool" /\ left.b = right.b
    ELSE FALSE

\* reflect.DeepEqual on values of the model's single numeric type
DeepEqual(a, b) == a = b

MergeTop(lm, rm) ==
    [key \in DOMAIN lm \cup DOMAIN rm |-> IF key \in DOMAIN rm THEN rm[key] ELSE lm[key]]

add(left, right) ==
    IF IsNull(left) THEN Good(right)
    ELSE IF IsNull(right) THEN Good(left)
    ELSE IF IsStr(left) /\ IsStr(right) THEN Good(Str(left.s \o right.s))
    ELSE IF IsNum(left) /\ IsNum(right) THEN Good(Num(left.n + right.n))
    ELSE IF IsArr(left) /\ IsArr(right) THEN Good(Arr(left.e \o right.e))
    ELSE IF IsObj(left) /\ IsObj(right) THEN Good(Obj(MergeTop(left.m, right.m)))
    ELSE Bad

subtract(left, right) ==
    IF IsNum(left) /\ IsNum(right) THEN Good(Num(left.n - right.n))
    ELSE IF IsArr(left) /\ IsArr(right) THEN
        Good(Arr(SelectSeq(left.e,
                 LAMBDA lv : ~(\E i \in DOMAIN right.e : equals(lv, right.e[i])))))
    ELSE Bad

RECURSIVE Repeat(_, _)
Repeat(s, n) == IF n <= 0 THEN "" ELSE s \o Repeat(s, n - 1)

RECURSIVE deepMerge(_, _)
deepMerge(base, overlay) ==
    [key \in DOMAIN base \cup DOMAIN overlay |->
        IF key \notin DOMAIN overlay THEN base[key]
        ELSE IF key \in DOMAIN base /\ IsObj(base[key]) /\ IsObj(overlay[key])
             THEN Obj(deepMerge(base[key].m, overlay[key].m))
        ELSE overlay[key]]

multiply(left, right) ==
    IF IsNum(left) /\ IsNum(right) THEN Good(Num(left.n * right.n))
    ELSE IF IsStr(left) /\ IsNum(right) THEN Good(Str(Repeat(left.s, right.n)))
    ELSE IF IsObj(left) /\ IsObj(right) THEN Good(Obj(deepMerge(left.m, right.m)))
    ELSE Bad

\* addValues is the addition the assignment operators use
addValues(a, b) ==
    IF IsNull(a) THEN Good(b)
    ELSE IF IsNull(b) THEN Good(a)
    ELSE IF IsNum(a) /\ IsNum(b) THEN Good(Num(a.n + b.n))
    ELSE IF IsStr(a) /\ IsStr(b) THEN Good(Str(a.s \o b.s))
    ELSE IF IsArr(a) /\ IsArr(b) THEN Good(Arr(a.e \o b.e))
    ELSE IF IsObj(a) /\ IsObj(b) THEN Good(Obj(MergeTop(a.m, b.m)))
    ELSE Bad

\* subtractValues is the subtraction the assignment operators use
subtractValues(a, b) ==
    IF IsNull(a) THEN (IF IsNum(b) THEN Good(Num(0 - b.n)) ELSE Bad)
    ELSE IF IsNum(a) /\ IsNum(b) THEN Good(Num(a.n - b.n))
    ELSE IF IsArr(a) /\ IsArr(b) THEN
        Good(Arr(SelectSeq(a.e,
                 LAMBDA item : ~(\E i \in DOMAIN b.e : DeepEqual(item, b.e[i])))))
    ELSE Bad

(***************************************************************************)
(* Paths on values.  A path is a sequence of values: Str(field) or         *)
(* Num(index); any other element is an invalid path element.               *)
(***************************************************************************)
RECURSIVE getPath(_, _)
getPath(value, path) ==
    IF path = <<>> THEN Good(value)
    ELSE LET p == Head(path) IN
         IF IsStr(p) THEN
            IF ~IsObj(value) THEN Bad
            ELSE getPath(IF p.s \in DOMAIN value.m THEN value.m[p.s] ELSE Null, Tail(path))
         ELSE IF IsNum(p) THEN
            IF ~IsArr(value) THEN Bad
            ELSE LET key == IF p.n < 0 THEN Len(value.e) + p.n ELSE p.n IN
                 IF key < 0 \/ key >= Len(value.e) THEN Bad
                 ELSE getPath(value.e[key + 1], Tail(path))
         ELSE Bad

\* arr extended with nulls until index idx exists
Extend(e, idx) == [i \in 1..(IF Len(e) > idx THEN Len(e) ELSE idx + 1) |->
                     IF i <= Len(e) THEN e[i] ELSE Null]

RECURSIVE setPathRecursive(_, _, _)
setPathRecursive(value, path, newValue) ==
    IF path = <<>> THEN Good(newValue)
    ELSE LET key == Head(path)
             remainingPath == Tail(path)
         IN
         IF IsStr(key) THEN
            LET m == IF IsObj(value) THEN value.m ELSE EmptyMap
                existing == IF key.s \in DOMAIN m THEN m[key.s] ELSE Null
                updated == IF remainingPath = <<>> THEN Good(newValue)
                           ELSE setPathRecursive(existing, remainingPath, newValue)
            IN IF updated.err # "none" THEN updated
               ELSE Good(Obj([f \in DOMAIN m \cup {key.s} |->
                                 IF f = key.s THEN updated.v ELSE m[f]]))
         ELSE IF IsNum(key) THEN
            LET arr == IF IsArr(value) THEN value.e ELSE <<>>
                idx == IF key.n < 0 THEN Len(arr) + key.n ELSE key.n
            IN IF idx < 0 THEN Panic    \* arr[idx] with a negative idx
               ELSE LET ext == Extend(arr, idx)
                        updated == IF remainingPath = <<>> THEN Good(newValue)
                                   ELSE setPathRecursive(ext[idx + 1], remainingPath, newValue)
                    IN IF updated.err # "none" THEN updated
                       ELSE Good(Arr([ext EXCEPT ![idx + 1] = updated.v]))
         ELSE Bad

\* setPath that always starts from a new container, as if value were nil
setPath_FromEmpty(value, path, newValue) ==
    IF path = <<>> THEN Good(newValue)
    ELSE setPathRecursive(IF IsStr(Head(path)) THEN Obj(EmptyMap) ELSE Arr(<<>>),
                          path, newValue)

setPath(value, path, newValue) ==
    IF path = <<>> THEN Good(newValue)
    ELSE LET container ==
                IF ~IsNull(value) THEN value
                ELSE IF IsStr(Head(path)) THEN Obj(EmptyMap)
                ELSE Arr(<<>>)
         IN setPathRecursive(container, path, newValue)

RemoveAt(e, idx) == [i \in 1..(Len(e) - 1) |-> IF i <= idx THEN e[i] ELSE e[i + 1]]

RECURSIVE deletePath(_, _)
deletePath(value, path) ==
    IF path = <<>> THEN Good(Null)
    ELSE LET key == Head(path) IN
         IF Len(path) = 1 THEN
            IF IsStr(key) THEN
               IF ~IsObj(value) THEN Good(value)
               ELSE Good(Obj([f \in DOMAIN value.m \ {key.s} |-> value.m[f]]))
            ELSE IF IsNum(key) THEN
               IF ~IsArr(value) THEN Good(value)
               ELSE LET idx == IF key.n < 0 THEN Len(value.e) + key.n ELSE key.n IN
                    IF idx < 0 \/ idx >= Len(value.e) THEN Good(value)
                    ELSE Good(Arr(RemoveAt(value.e, idx)))
            ELSE Bad
         ELSE
            IF IsStr(key) THEN
               IF ~IsObj(value) THEN Good(value)
               ELSE IF key.s \notin DOMAIN value.m THEN Good(value)
               ELSE LET updated == deletePath(value.m[key.s], Tail(path)) IN
                    IF updated.err # "none" THEN updated
                    ELSE Good(Obj([value.m EXCEPT ![key.s] = updated.v]))
            ELSE IF IsNum(key) THEN
               IF ~IsArr(value) THEN Good(value)
               ELSE LET idx == IF key.n < 0 THEN Len(value.e) + key.n ELSE key.n IN
                    IF idx < 0 \/ idx >= Len(value.e) THEN Good(value)
                    ELSE LET updated == deletePath(value.e[idx + 1], Tail(path)) IN
                         IF updated.err # "none" THEN updated
                         ELSE Good(Arr([value.e EXCEPT ![idx + 1] = updated.v]))
            ELSE Bad

(***************************************************************************)
(* Expression trees (parser/ast.go)                                        *)
(***************************************************************************)
NilNode == [t |-> "nil"]                 \* a nil ExpressionNode
Identity == [t |-> "Identity"]
Literal(v) == [t |-> "Literal", value |-> v]
FieldAccess(from, field) == [t |-> "FieldAccess", from |-> from, field |-> field]
IndexAccess(from, index) == [t |-> "IndexAccess", from |-> from, index |-> index]
Iterator(from) == [t |-> "Iterator", from |-> from]
Pipe(left, right) == [t |-> "Pipe", left |-> left, right |-> right]
Comma(exprs) == [t |-> "Comma", exprs |-> exprs]
BinaryOp(op, left, right) == [t |-> "BinaryOp", op |-> op, left |-> left, right |-> right]
Variable(name) == [t |-> "Variable", name |-> name]
VariableBind(e, name, body) == [t |-> "VariableBind", expr |-> e, name |-> name, body |-> body]
Reduce(e, name, init, update) ==
    [t |-> "Reduce", expr |-> e, name |-> name, init |-> init, update |-> update]
Assign(path, op, value) == [t |-> "Assign", path |-> path, op |-> op, value |-> value]
FunctionCall(name, args) == [t |-> "FunctionCall", name |-> name, args |-> args]
TryCatch(try, catch) == [t |-> "TryCatch", try |-> try, catch |-> catch]
Optional(e) == [t |-> "Optional", expr |-> e]
Alternative(left, right) == [t |-> "Alternative", left |-> left, right |-> right]
\* .[start:end]; a bound is <<>> when absent and <<i>> when given
Slice(from, start, end) == [t |-> "Slice", from |-> from, start |-> start, end |-> end]

\* .[index-expression]
DynamicIndex(from, index) == [t |-> "DynamicIndex", from |-> from, index |-> index]
\* expr as {field: $name, ...} | body; bindings maps field names to names
DestructureBind(e, bindings, body) ==
    [t |-> "DestructureBind", expr |-> e, bindings |-> bindings, body |-> body]

ArrayConstruct(elements) == [t |-> "ArrayConstruct", elements |-> elements]

(***************************************************************************)
(* The evaluation context (types/context.go).  MatchingNodes is a sequence *)
(* of values.  Variables is ONE Go map shared by a context and all its     *)
(* clones, so it is threaded through the evaluation as a store: every      *)
(* evaluation returns the store it leaves behind.                          *)
(***************************************************************************)
VarNames == {"x", "y"}
Unbound == [k |-> "unbound"]
NewVariables == [name \in VarNames |-> Unbound]

\* Context.Clone: a new MatchingNodes slice, the SAME Variables map
Clone(vs) == vs

\* bodyCtx.Variables[name] = value, on the map the clone shares
BindVariable(vs, name, value) == [Clone(vs) EXCEPT ![name] = value]

GetVariable(vs, name) == vs[name]

\* what evaluate returns, and the Variables map as it is afterwards
Ok(out, vs) == [out |-> out, err |-> "none", vars |-> vs]
Fail(vs) == [out |-> <<>>, err |-> "fail", vars |-> vs]
Abort(vs) == [out |-> <<>>, err |-> "panic", vars |-> vs]
Raise(kind, vs) == [out |-> <<>>, err |-> kind, vars |-> vs]

\* run Body on each item in turn, concatenating the outputs; the first
\* error ends the loop and is returned
RECURSIVE ForEach(_, _, _)
ForEach(Body(_, _), items, vs) ==
    IF items = <<>> THEN Ok(<<>>, vs)
    ELSE LET r == Body(Head(items), vs) IN
         IF r.err # "none" THEN r
         ELSE LET rest == ForEach(Body, Tail(items), r.vars) IN
              IF rest.err # "none" THEN rest
              ELSE Ok(r.out \o rest.out, rest.vars)

(***************************************************************************)
(* Path expressions                                                        *)
(***************************************************************************)
RECURSIVE extractPath(_)
extractPath(e) ==
    IF e = NilNode \/ e.t = "Identity" THEN [err |-> FALSE, path |-> <<>>]
    ELSE IF e.t = "FieldAccess" THEN
        LET r == extractPath(e.from) IN
        [err |-> r.err, path |-> IF r.err THEN <<>> ELSE Append(r.path, Str(e.field))]
    ELSE IF e.t = "IndexAccess" THEN
        LET r == extractPath(e.from) IN
        [err |-> r.err, path |-> IF r.err THEN <<>> ELSE Append(r.path, Num(e.index))]
    ELSE [err |-> TRUE, path |-> <<>>]

RECURSIVE isIteratorPath(_)
isIteratorPath(e) ==
    IF e = NilNode THEN FALSE
    ELSE IF e.t = "Iterator" THEN TRUE
    ELSE IF e.t \in {"FieldAccess", "IndexAccess"} THEN isIteratorPath(e.from)
    ELSE FALSE

isIdentity(e) == e # NilNode /\ e.t = "Identity"

\* the path before the first iterator segment found walking up from the end
\* of the path expression; the segments after that iterator are dropped
RECURSIVE splitIteratorPath(_)
splitIteratorPath(e) ==
    IF e.t = "Iterator" THEN
        IF e.from = NilNode \/ isIdentity(e.from) THEN <<>>
        ELSE extractPath(e.from).path
    ELSE IF e.t \in {"FieldAccess", "IndexAccess"} /\ isIteratorPath(e.from) THEN
        splitIteratorPath(e.from)
    ELSE <<>>

RECURSIVE flattenDelPaths(_)
flattenDelPaths(e) ==
    IF e.t = "Comma" THEN Flatten(SeqMap(flattenDelPaths, e.exprs))
    ELSE <<e>>

\* depth-first, a map's keys in the order this run ranges over them
RECURSIVE collectPaths(_, _)
collectPaths(value, prefix) ==
    (IF prefix # <<>> THEN <<prefix>> ELSE <<>>) \o
    (IF IsObj(value) THEN
        Flatten(SeqMap(LAMBDA key : collectPaths(value.m[key], Append(prefix, Str(key))),
                       RangeKeys(value.m)))
     ELSE IF IsArr(value) THEN
        Flatten([i \in 1..Len(value.e) |->
                    collectPaths(value.e[i], Append(prefix, Num(i - 1)))])
     ELSE <<>>)

accessField(value, field) ==
    IF IsObj(value) /\ field \in DOMAIN value.m THEN value.m[field] ELSE Null

accessIndex(value, index) ==
    IF ~IsArr(value) THEN Null
    ELSE LET i == IF index < 0 THEN Len(value.e) + index ELSE index IN
         IF i < 0 \/ i >= Len(value.e) THEN Null ELSE value.e[i + 1]

\* the elements of a list, the values of a map in range order, or an error
iterateValue(value) ==
    IF IsArr(value) THEN [err |-> FALSE, items |-> value.e]
    ELSE IF IsObj(value) THEN
        [err |-> FALSE, items |-> SeqMap(LAMBDA key : value.m[key], RangeKeys(value.m))]
    ELSE [err |-> TRUE, items |-> <<>>]

\* A number with a fractional part: Frac(h) is h/2, for h odd.  Such numbers
\* are operands of % only; every other number of the model is a Num.
Frac(h) == [k |-> "frac", h |-> h]
IsFrac(v) == v.k = "frac"

\* toNumber: ok, and the number counted in halves
toNumber(v) ==
    IF IsNum(v) THEN [ok |-> TRUE, h |-> 2 * v.n]
    ELSE IF IsFrac(v) THEN [ok |-> TRUE, h |-> v.h]
    ELSE [ok |-> FALSE, h |-> 0]

\* int64(x) of the float64 x = h/2: the fractional part is dropped
Int64(h) == IF h >= 0 THEN h \div 2 ELSE -((-h) \div 2)

\* Go's a % b on integers, b # 0: the sign of the result is that of a
Remainder(a, b) ==
    LET d == IF b < 0 THEN -b ELSE b IN
    IF a >= 0 THEN a % d ELSE -((-a) % d)

\* rn == 0 is tested on the float64; int64(ln) % int64(rn) with int64(rn) = 0
\* is an integer division by zero, a run-time panic
modulo(left, right) ==
    LET ln == toNumber(left)
        rn == toNumber(right)
    IN IF ln.ok /\ rn.ok THEN
           IF rn.h = 0 THEN Bad
           ELSE IF Int64(rn.h) = 0 THEN Panic
           ELSE Good(Num(Remainder(Int64(ln.h), Int64(rn.h))))
       ELSE Bad

applyBinaryOp(op, left, right) ==
    CASE op = "+" -> add(left, right)
      [] op = "-" -> subtract(left, right)
      [] op = "*" -> multiply(left, right)
      [] op = "%" -> modulo(left, right)
      [] op = "==" -> Good(Bool(equals(left, right)))
      [] op = "!=" -> Good(Bool(~equals(left, right)))
      [] op = "and" -> Good(Bool(isTruthy(left) /\ isTruthy(right)))
      [] op = "or" -> Good(Bool(isTruthy(left) \/ isTruthy(right)))
      [] OTHER -> Bad

(***************************************************************************)
(* evaluate (evaluator.go).  Eval(n, nodes, vs): n is the AST node, nodes  *)
(* is ctx.MatchingNodes and vs the Variables map when the call is made.    *)
(***************************************************************************)
RECURSIVE Eval(_, _, _)

\* what no handler turns into a value: a run-time panic, and "multi", the
\* report of a call of evaluate whose context does not hold exactly one node
Uncaught == {"panic", "multi"}

\* the values an access navigates from: n.From evaluated, or the context's
\* resolveSliceBounds: an absent bound is 0 or length, a negative one counts
\* from the end
resolveSliceBounds(start, end, length) ==
    [s |-> IF start = <<>> THEN 0
           ELSE IF start[1] < 0 THEN length + start[1] ELSE start[1],
     e |-> IF end = <<>> THEN length
           ELSE IF end[1] < 0 THEN length + end[1] ELSE end[1]]

\* the bounds sliceValue hands to v[s:e], or empty when it returns the empty
\* list or string without slicing
sliceBounds_Unclamped(start, end, length) ==
    LET r == resolveSliceBounds(start, end, length) IN
    IF r.s >= r.e \/ r.s >= length \/ r.e < 0 THEN [empty |-> TRUE, s |-> 0, e |-> 0]
    ELSE [empty |-> FALSE, s |-> r.s, e |-> r.e]

sliceBounds(start, end, length) ==
    LET r == resolveSliceBounds(start, end, length) IN
    IF r.s >= r.e \/ r.s >= length \/ r.e < 0 THEN [empty |-> TRUE, s |-> 0, e |-> 0]
    ELSE [empty |-> FALSE,
          s |-> IF r.s < 0 THEN 0 ELSE r.s,
          e |-> IF r.e > length THEN length ELSE r.e]

\* v[s:e] of Go: bounds outside 0 <= s <= e <= len(v) are a run-time panic
sliceValue(value, start, end) ==
    IF IsArr(value) \/ IsStr(value) THEN
        LET v == IF IsArr(value) THEN value.e ELSE value.s
            b == sliceBounds(start, end, Len(v))
        IN  IF b.empty THEN Good(IF IsArr(value) THEN Arr(<<>>) ELSE Str(""))
            ELSE IF ~(0 <= b.s /\ b.s <= b.e /\ b.e <= Len(v)) THEN Panic
            ELSE Good(IF IsArr(value) THEN Arr(SubSeq(v, b.s + 1, b.e))
                      ELSE Str(SubSeq(v, b.s + 1, b.e)))
    ELSE Good(Null)

Sources(n, nodes, vs) ==
    IF n.from # NilNode THEN Eval(n.from, nodes, vs) ELSE Ok(nodes, vs)

evalFieldAccess(n, nodes, vs) ==
    LET src == Sources(n, nodes, vs) IN
    IF src.err # "none" THEN src
    ELSE Ok(SeqMap(LAMBDA v : accessField(v, n.field), src.out), src.vars)

evalIndexAccess(n, nodes, vs) ==
    LET src == Sources(n, nodes, vs) IN
    IF src.err # "none" THEN src
    ELSE Ok(SeqMap(LAMBDA v : accessIndex(v, n.index), src.out), src.vars)

evalSlice(n, nodes, vs) ==
    LET src == Sources(n, nodes, vs)
        Take(v, ws) == LET r == sliceValue(v, n.start, n.end) IN
                       IF r.err # "none" THEN Raise(r.err, ws) ELSE Ok(<<r.v>>, ws)
    IN  IF src.err # "none" THEN src ELSE ForEach(Take, src.out, src.vars)

evalIterator(n, nodes, vs) ==
    LET src == Sources(n, nodes, vs) IN
    IF src.err # "none" THEN src
    ELSE ForEach(LAMBDA v, w : IF iterateValue(v).err THEN Fail(w)
                               ELSE Ok(iterateValue(v).items, w),
                 src.out, src.vars)

\* the right side evaluated once on all the left results together
evalPipe_AllAtOnce(n, nodes, vs) ==
    LET leftResults == Eval(n.left, nodes, vs) IN
    IF leftResults.err # "none" THEN leftResults
    ELSE Eval(n.right, leftResults.out, Clone(leftResults.vars))

evalPipe(n, nodes, vs) ==
    LET leftResults == Eval(n.left, nodes, vs) IN
    IF leftResults.err # "none" THEN leftResults
    ELSE ForEach(LAMBDA leftNode, w : Eval(n.right, <<leftNode>>, Clone(w)),
                 leftResults.out, leftResults.vars)

evalComma(n, nodes, vs) ==
    ForEach(LAMBDA e, w : Eval(e, nodes, w), n.exprs, vs)

evalBinaryOp(n, nodes, vs) ==
    LET leftResults == Eval(n.left, nodes, vs) IN
    IF leftResults.err # "none" THEN leftResults
    ELSE LET rightResults == Eval(n.right, nodes, leftResults.vars) IN
         IF rightResults.err # "none" THEN rightResults
         ELSE IF leftResults.out = <<>> \/ rightResults.out = <<>>
              THEN Fail(rightResults.vars)
         ELSE LET r == applyBinaryOp(n.op, leftResults.out[1], rightResults.out[1]) IN
              IF r.err # "none" THEN Raise(r.err, rightResults.vars)
              ELSE Ok(<<r.v>>, rightResults.vars)

evalVariable(n, nodes, vs) ==
    IF GetVariable(vs, n.name) = Unbound THEN Fail(vs)
    ELSE Ok(<<GetVariable(vs, n.name)>>, vs)

evalVariableBind(n, nodes, vs) ==
    ForEach(LAMBDA node, w :
                LET exprResults == Eval(n.expr, <<node>>, Clone(w)) IN
                IF exprResults.err # "none" THEN exprResults
                ELSE ForEach(LAMBDA exprResult, u :
                                 Eval(n.body, <<node>>, BindVariable(u, n.name, exprResult)),
                             exprResults.out, exprResults.vars),
            nodes, vs)

\* the update loop of reduce without `accumulator = updateResults[0].Value`
RECURSIVE ReduceLoop_KeepInit(_, _, _, _)
ReduceLoop_KeepInit(n, iterResults, accumulator, vs) ==
    IF iterResults = <<>> THEN [acc |-> accumulator, err |-> "none", vars |-> vs]
    ELSE LET updateResults == Eval(n.update, <<accumulator>>,
                                   BindVariable(vs, n.name, Head(iterResults)))
         IN IF updateResults.err # "none"
            THEN [acc |-> accumulator, err |-> updateResults.err, vars |-> updateResults.vars]
            ELSE ReduceLoop_KeepInit(n, Tail(iterResults), accumulator, updateResults.vars)

\* the update loop of reduce: [acc, err, vars]
RECURSIVE ReduceLoop(_, _, _, _)
ReduceLoop(n, iterResults, accumulator, vs) ==
    IF iterResults = <<>> THEN [acc |-> accumulator, err |-> "none", vars |-> vs]
    ELSE LET updateResults == Eval(n.update, <<accumulator>>,
                                   BindVariable(vs, n.name, Head(iterResults)))
         IN IF updateResults.err # "none"
            THEN [acc |-> accumulator, err |-> updateResults.err, vars |-> updateResults.vars]
            ELSE ReduceLoop(n, Tail(iterResults),
                            IF updateResults.out # <<>> THEN updateResults.out[1]
                            ELSE accumulator,
                            updateResults.vars)

evalReduce(n, nodes, vs) ==
    ForEach(LAMBDA node, w :
                LET initResults == Eval(n.init, <<node>>, Clone(w)) IN
                IF initResults.err # "none" THEN initResults
                ELSE IF initResults.out = <<>> THEN Ok(<<>>, initResults.vars)
                ELSE LET iterResults == Eval(n.expr, <<node>>, initResults.vars) IN
                     IF iterResults.err # "none" THEN iterResults
                     ELSE LET l == ReduceLoop(n, iterResults.out, initResults.out[1],
                                              iterResults.vars)
                          IN IF l.err # "none" THEN Raise(l.err, l.vars)
                             ELSE Ok(<<l.acc>>, l.vars),
            nodes, vs)

evalOptional(n, nodes, vs) ==
    LET results == Eval(n.expr, nodes, vs) IN
    IF results.err \in Uncaught THEN results
    ELSE IF results.err # "none" THEN Ok(<<>>, results.vars)
    ELSE Ok(SelectSeq(results.out, LAMBDA v : ~IsNull(v)), results.vars)

evalTryCatch(n, nodes, vs) ==
    LET results == Eval(n.try, nodes, vs) IN
    IF results.err \in {"none"} \cup Uncaught THEN results
    ELSE IF n.catch # NilNode THEN Eval(n.catch, nodes, results.vars)
    ELSE Ok(<<>>, results.vars)

evalAlternative(n, nodes, vs) ==
    LET leftResults == Eval(n.left, nodes, vs) IN
    IF leftResults.err \in Uncaught THEN leftResults
    ELSE IF leftResults.err = "none"
            /\ \E i \in DOMAIN leftResults.out :
                  ~IsNull(leftResults.out[i]) /\ leftResults.out[i] # Bool(FALSE)
         THEN leftResults
    ELSE Eval(n.right, nodes, leftResults.vars)

evalArrayConstruct(n, nodes, vs) ==
    IF n.elements = NilNode THEN Ok(<<Arr(<<>>)>>, vs)
    ELSE LET elements == Eval(n.elements, nodes, vs) IN
         IF elements.err # "none" THEN elements
         ELSE Ok(<<Arr(elements.out)>>, elements.vars)

evalSelect(condition, nodes, vs) ==
    ForEach(LAMBDA node, w :
                LET condResults == Eval(condition, <<node>>, Clone(w)) IN
                IF condResults.err # "none" THEN condResults
                ELSE IF condResults.out # <<>> /\ isTruthy(condResults.out[1])
                     THEN Ok(<<node>>, condResults.vars)
                ELSE Ok(<<>>, condResults.vars),
            nodes, vs)

\* error(MSG): the message is evaluated, then the failure is raised
evalError(args, nodes, vs) ==
    IF Len(args) = 1 THEN
        LET msgResults == Eval(args[1], nodes, vs) IN
        IF msgResults.err # "none" THEN msgResults ELSE Fail(msgResults.vars)
    ELSE Fail(vs)

(***************************************************************************)
(* Assignment                                                              *)
(***************************************************************************)
\* deepCopy returns a value equal to its argument; what it does to the
\* sharing of memory is the subject of the memory model below
deepCopy(v) == v

\* the new element of an iterator assignment: [err, v, vars]
applyIteratorUpdate(n, elem, vs) ==
    IF n.op \notin {"=", "|=", "+=", "-="} THEN [err |-> "fail", v |-> Null, vars |-> vs]
    ELSE LET valueResults == Eval(n.value, <<elem>>, Clone(vs)) IN
         IF valueResults.err # "none"
         THEN [err |-> valueResults.err, v |-> Null, vars |-> valueResults.vars]
         ELSE IF valueResults.out = <<>>
         THEN [err |-> "none", v |-> elem, vars |-> valueResults.vars]
         ELSE LET r == CASE n.op \in {"=", "|="} -> Good(valueResults.out[1])
                         [] n.op = "+=" -> addValues(elem, valueResults.out[1])
                         [] n.op = "-=" -> subtractValues(elem, valueResults.out[1])
              IN [err |-> r.err, v |-> r.v, vars |-> valueResults.vars]

\* applyIteratorUpdate on each element in turn: [err, vs (the new elements), vars]
RECURSIVE UpdateElems(_, _, _)
UpdateElems(n, elems, vs) ==
    IF elems = <<>> THEN [err |-> "none", vs |-> <<>>, vars |-> vs]
    ELSE LET r == applyIteratorUpdate(n, Head(elems), vs) IN
         IF r.err # "none" THEN [err |-> r.err, vs |-> <<>>, vars |-> r.vars]
         ELSE LET rest == UpdateElems(n, Tail(elems), r.vars) IN
              IF rest.err # "none" THEN rest
              ELSE [err |-> "none", vs |-> <<r.v>> \o rest.vs, vars |-> rest.vars]

\* [err, v, vars]
evalIteratorAssign(n, value, vs) ==
    LET prefix == splitIteratorPath(n.path)
        got == IF prefix # <<>> THEN getPath(value, prefix) ELSE Good(value)
        container == got.v
    IN IF got.err # "none" THEN [err |-> got.err, v |-> Null, vars |-> vs]
       ELSE IF IsArr(container) THEN
            LET u == UpdateElems(n, container.e, vs) IN
            IF u.err # "none" THEN [err |-> u.err, v |-> Null, vars |-> u.vars]
            ELSE LET w == IF prefix # <<>> THEN setPath(value, prefix, Arr(u.vs))
                          ELSE Good(Arr(u.vs))
                 IN [err |-> w.err, v |-> w.v, vars |-> u.vars]
       ELSE IF IsObj(container) THEN
            LET keys == RangeKeys(container.m)
                u == UpdateElems(n, SeqMap(LAMBDA key : container.m[key], keys), vs)
            IN IF u.err # "none" THEN [err |-> u.err, v |-> Null, vars |-> u.vars]
               ELSE LET newMap == [key \in DOMAIN container.m |->
                                      u.vs[CHOOSE i \in DOMAIN keys : keys[i] = key]]
                        w == IF prefix # <<>> THEN setPath(value, prefix, Obj(newMap))
                             ELSE Good(Obj(newMap))
                    IN [err |-> w.err, v |-> w.v, vars |-> u.vars]
       ELSE [err |-> "fail", v |-> Null, vars |-> vs]

\* the body of evalAssign's loop, for one matching node
evalAssignNode(n, node, vs) ==
    LET modified == deepCopy(node) IN
    IF isIteratorPath(n.path) THEN
        LET r == evalIteratorAssign(n, modified, vs) IN
        IF r.err # "none" THEN Raise(r.err, r.vars) ELSE Ok(<<r.v>>, r.vars)
    ELSE IF extractPath(n.path).err THEN Fail(vs)
    ELSE IF n.op \notin {"=", "|=", "+=", "-="} THEN Fail(vs)
    ELSE LET path == extractPath(n.path).path
             got == getPath(modified, path)
             currentValue == IF got.err # "none" THEN Null ELSE got.v
             valueResults == Eval(n.value,
                                  IF n.op = "|=" THEN <<currentValue>> ELSE <<node>>,
                                  Clone(vs))
         IN IF valueResults.err # "none" THEN valueResults
            ELSE IF valueResults.out = <<>> THEN Ok(<<>>, valueResults.vars)
            ELSE LET newValue ==
                        CASE n.op \in {"=", "|="} -> Good(valueResults.out[1])
                          [] n.op = "+=" -> addValues(currentValue, valueResults.out[1])
                          [] n.op = "-=" -> subtractValues(currentValue, valueResults.out[1])
                     w == IF newValue.err # "none" THEN newValue
                          ELSE setPath(modified, path, newValue.v)
                 IN IF w.err # "none" THEN Raise(w.err, valueResults.vars)
                    ELSE Ok(<<w.v>>, valueResults.vars)

evalAssign(n, nodes, vs) ==
    ForEach(LAMBDA node, w : evalAssignNode(n, node, w), nodes, vs)

(***************************************************************************)
(* del, paths, delpaths                                                    *)
(***************************************************************************)
\* which elements del(.[] | F) keeps: [keep (one flag per element), vars].
\* An element is kept when F fails on it or yields nothing.
RECURSIVE DelPipeKeep(_, _, _)
DelPipeKeep(right, elems, vs) ==
    IF elems = <<>> THEN [keep |-> <<>>, vars |-> vs]
    ELSE LET selected == Eval(right, <<Head(elems)>>, Clone(vs))
             rest == DelPipeKeep(right, Tail(elems), selected.vars)
         IN [keep |-> <<selected.err # "none" \/ selected.out = <<>> >> \o rest.keep,
             vars |-> rest.vars]

\* [v, vars]; evalDelPipe never returns an error
evalDelPipe(pipe, value, vs) ==
    IF pipe.left.t = "Iterator" /\ (pipe.left.from = NilNode \/ isIdentity(pipe.left.from))
    THEN IF IsArr(value) THEN
            LET d == DelPipeKeep(pipe.right, value.e, vs)
                kept == SelectSeq([i \in DOMAIN value.e |-> <<d.keep[i], value.e[i]>>],
                                  LAMBDA pr : pr[1])
            IN [v |-> Arr(SeqMap(LAMBDA pr : pr[2], kept)), vars |-> d.vars]
         ELSE IF IsObj(value) THEN
            LET keys == RangeKeys(value.m)
                d == DelPipeKeep(pipe.right, SeqMap(LAMBDA key : value.m[key], keys), vs)
                keptKeys == {keys[i] : i \in {j \in DOMAIN keys : d.keep[j]}}
            IN [v |-> Obj([key \in keptKeys |-> value.m[key]]), vars |-> d.vars]
         ELSE [v |-> value, vars |-> vs]
    ELSE [v |-> value, vars |-> vs]

evalDelIterator(e, value) ==
    IF e.t = "Iterator" /\ (e.from = NilNode \/ isIdentity(e.from))
    THEN IF IsArr(value) THEN Arr(<<>>)
         ELSE IF IsObj(value) THEN Obj(EmptyMap)
         ELSE value
    ELSE value

\* del's loop over the path expressions: [err, v, vars]
RECURSIVE DelLoop(_, _, _)
DelLoop(pathExprs, modified, vs) ==
    IF pathExprs = <<>> THEN [err |-> "none", v |-> modified, vars |-> vs]
    ELSE LET pathExpr == Head(pathExprs) IN
         IF pathExpr.t = "Pipe" THEN
            LET r == evalDelPipe(pathExpr, modified, vs) IN
            DelLoop(Tail(pathExprs), r.v, r.vars)
         ELSE IF isIteratorPath(pathExpr) THEN
            DelLoop(Tail(pathExprs), evalDelIterator(pathExpr, modified), vs)
         ELSE IF extractPath(pathExpr).err THEN [err |-> "fail", v |-> Null, vars |-> vs]
         ELSE DelLoop(Tail(pathExprs), deletePath(modified, extractPath(pathExpr).path).v, vs)

evalDel(args, nodes, vs) ==
    ForEach(LAMBDA node, w :
                LET r == DelLoop(Flatten(SeqMap(flattenDelPaths, args)),
                                 deepCopy(node), w)
                IN IF r.err # "none" THEN Raise(r.err, r.vars) ELSE Ok(<<r.v>>, r.vars),
            nodes, vs)

evalPaths(filter, nodes, vs) ==
    ForEach(LAMBDA node, w :
                ForEach(LAMBDA p, u :
                            IF filter = NilNode THEN Ok(<<Arr(p)>>, u)
                            ELSE LET filterResult == Eval(filter, <<getPath(node, p).v>>,
                                                          Clone(u))
                                 IN IF filterResult.err # "none" \/ filterResult.out = <<>>
                                       \/ ~isTruthy(filterResult.out[1])
                                    THEN Ok(<<>>, filterResult.vars)
                                    ELSE Ok(<<Arr(p)>>, filterResult.vars),
                        collectPaths(node, <<>>), w),
            nodes, vs)

\* delpaths deletes the paths last to first
RECURSIVE DelpathsLoop(_, _, _)
DelpathsLoop(pathsArr, i, modified) ==
    IF i < 1 THEN modified
    ELSE IF ~IsArr(pathsArr[i]) THEN DelpathsLoop(pathsArr, i - 1, modified)
    ELSE DelpathsLoop(pathsArr, i - 1, deletePath(modified, pathsArr[i].e).v)

evalDelpaths(pathsExpr, nodes, vs) ==
    ForEach(LAMBDA node, w :
                LET pathsResults == Eval(pathsExpr, <<node>>, Clone(w)) IN
                IF pathsResults.err # "none" THEN pathsResults
                ELSE IF pathsResults.out = <<>> THEN Ok(<<>>, pathsResults.vars)
                ELSE IF ~IsArr(pathsResults.out[1]) THEN Fail(pathsResults.vars)
                ELSE Ok(<<DelpathsLoop(pathsResults.out[1].e, Len(pathsResults.out[1].e),
                                       deepCopy(node))>>,
                        pathsResults.vars),
            nodes, vs)

\* path(P): one result, the path of P, whatever the matching nodes
evalPathExpr(e, nodes, vs) ==
    IF extractPath(e).err THEN Fail(vs) ELSE Ok(<<Arr(extractPath(e).path)>>, vs)

evalGetpath(pathExpr, nodes, vs) ==
    ForEach(LAMBDA node, w :
                LET pathResults == Eval(pathExpr, <<node>>, Clone(w)) IN
                IF pathResults.err # "none" THEN pathResults
                ELSE IF pathResults.out = <<>> THEN Ok(<<>>, pathResults.vars)
                ELSE IF ~IsArr(pathResults.out[1]) THEN Fail(pathResults.vars)
                ELSE LET got == getPath(node, pathResults.out[1].e) IN
                     Ok(<<IF got.err # "none" THEN Null ELSE got.v>>, pathResults.vars),
            nodes, vs)

evalSetpath(pathExpr, valueExpr, nodes, vs) ==
    ForEach(LAMBDA node, w :
                LET pathResults == Eval(pathExpr, <<node>>, Clone(w)) IN
                IF pathResults.err # "none" THEN pathResults
                ELSE IF pathResults.out = <<>> THEN Ok(<<>>, pathResults.vars)
                ELSE IF ~IsArr(pathResults.out[1]) THEN Fail(pathResults.vars)
                ELSE LET valueResults == Eval(valueExpr, <<node>>, pathResults.vars) IN
                     IF valueResults.err # "none" THEN valueResults
                     ELSE IF valueResults.out = <<>> THEN Ok(<<>>, valueResults.vars)
                     ELSE LET modified == setPath(deepCopy(node), pathResults.out[1].e,
                                                  valueResults.out[1])
                          IN IF modified.err # "none"
                             THEN Raise(modified.err, valueResults.vars)
                             ELSE Ok(<<modified.v>>, valueResults.vars),
            nodes, vs)

\* length: element, byte or key count; 0 for null; any other value fails
evalLength(nodes, vs) ==
    LET Count(v, ws) ==
            IF IsArr(v) THEN Ok(<<Num(Len(v.e))>>, ws)
            ELSE IF IsStr(v) THEN Ok(<<Num(Len(v.s))>>, ws)
            ELSE IF IsObj(v) THEN Ok(<<Num(Cardinality(DOMAIN v.m))>>, ws)
            ELSE IF IsNull(v) THEN Ok(<<Num(0)>>, ws)
            ELSE Fail(ws)
    IN  ForEach(Count, nodes, vs)

evalFunctionCall(n, nodes, vs) ==
    CASE n.name = "empty" -> Ok(<<>>, vs)
      [] n.name = "length" -> evalLength(nodes, vs)
      [] n.name = "select" ->
            IF Len(n.args) # 1 THEN Fail(vs) ELSE evalSelect(n.args[1], nodes, vs)
      [] n.name = "error" ->
            IF Len(n.args) > 1 THEN Fail(vs) ELSE evalError(n.args, nodes, vs)
      [] n.name = "del" ->
            IF Len(n.args) < 1 THEN Fail(vs) ELSE evalDel(n.args, nodes, vs)
      [] n.name = "paths" ->
            evalPaths(IF Len(n.args) > 0 THEN n.args[1] ELSE NilNode, nodes, vs)
      [] n.name = "path" ->
            IF Len(n.args) # 1 THEN Fail(vs) ELSE evalPathExpr(n.args[1], nodes, vs)
      [] n.name = "getpath" ->
            IF Len(n.args) # 1 THEN Fail(vs) ELSE evalGetpath(n.args[1], nodes, vs)
      [] n.name = "setpath" ->
            IF Len(n.args) # 2 THEN Fail(vs)
            ELSE evalSetpath(n.args[1], n.args[2], nodes, vs)
      [] n.name = "delpaths" ->
            IF Len(n.args) # 1 THEN Fail(vs) ELSE evalDelpaths(n.args[1], nodes, vs)
      [] OTHER -> Fail(vs)

\* The handlers loop over ctx.MatchingNodes; they are modelled for a context
\* of one node, and a call with any other number of nodes is reported.
Eval(n, nodes, vs) ==
    IF Len(nodes) # 1 THEN Raise("multi", vs) ELSE
    CASE n.t = "Identity" -> Ok(nodes, vs)
      [] n.t = "Literal" -> Ok(<<n.value>>, vs)
      [] n.t = "FieldAccess" -> evalFieldAccess(n, nodes, vs)
      [] n.t = "IndexAccess" -> evalIndexAccess(n, nodes, vs)
      [] n.t = "Slice" -> evalSlice(n, nodes, vs)
      [] n.t = "Iterator" -> evalIterator(n, nodes, vs)
      [] n.t = "Pipe" -> evalPipe(n, nodes, vs)
      [] n.t = "Comma" -> evalComma(n, nodes, vs)
      [] n.t = "BinaryOp" -> evalBinaryOp(n, nodes, vs)
      [] n.t = "FunctionCall" -> evalFunctionCall(n, nodes, vs)
      [] n.t = "ArrayConstruct" -> evalArrayConstruct(n, nodes, vs)
      [] n.t = "Variable" -> evalVariable(n, nodes, vs)
      [] n.t = "Alternative" -> evalAlternative(n, nodes, vs)
      [] n.t = "VariableBind" -> evalVariableBind(n, nodes, vs)
      [] n.t = "Optional" -> evalOptional(n, nodes, vs)
      [] n.t = "TryCatch" -> evalTryCatch(n, nodes, vs)
      [] n.t = "Assign" -> evalAssign(n, nodes, vs)
      [] n.t = "Reduce" -> evalReduce(n, nodes, vs)
      [] OTHER -> Fail(vs)

\* Evaluate: a new context holding the input and no variables
NewContext(in) == [nodes |-> <<in>>, vars |-> NewVariables]

EvaluateAst(ast, in) == Eval(ast, NewContext(in).nodes, NewContext(in).vars)

(***************************************************************************)
(* Inputs and expressions                                                  *)
(***************************************************************************)
MaxLen == 3      \* longest list among the input documents
MaxNum == 2      \* numbers of the input documents are 1..MaxNum

AllKeys == {"a", "b"}
SortedKeys == <<"a", "b">>
KeyOrders == {<<"a", "b">>, <<"b", "a">>}

Scalars == {Null} \cup {Num(i) : i \in 1..MaxNum}

\* [10, 20, ...]: a list whose elements name their original positions
Decades(len) == Arr([i \in 1..len |-> Num(10 * i)])

Inputs ==
    Scalars
    \cup {Decades(len) : len \in 0..MaxLen}
    \cup {Obj([key \in ks |-> Num(1)]) : ks \in SUBSET AllKeys}
    \cup {Obj([a |-> Num(1), b |-> Num(2)]),
          Obj([a |-> Decades(2)]),
          Arr(<<Null, Num(1)>>),
          Arr(<<Decades(1), Decades(2)>>),
          Arr(<<Obj([a |-> Num(1), b |-> Num(2)]), Obj([b |-> Num(1)])>>),
          Obj([a |-> Arr(<<Obj([a |-> Num(1), b |-> Num(2)]), Obj([b |-> Num(1)])>>),
               b |-> Num(2)])}

Dot(field) == FieldAccess(Identity, field)
At(index) == IndexAccess(Identity, index)
Each == Iterator(Identity)
Call0(name) == FunctionCall(name, <<>>)
Call1(name, arg) == FunctionCall(name, <<arg>>)
ErrorCall == Call1("error", Literal(Str("boom")))

\* operands
Operands == {Identity, Each, Dot("a"), Literal(Num(1)), Variable("x"), ErrorCall,
             Call0("empty"), VariableBind(Identity, "x", Identity)}

\* EXPR as $x | BODY, and reduce ... as $x
Binders == {VariableBind(e, "x", b) : e \in {Literal(Num(1)), Each, Call0("empty")},
                                      b \in {Identity, Variable("x")}}
           \cup {Reduce(Each, "x", Literal(Num(0)), BinaryOp("+", Identity, Variable("x")))}

\* a reference to $x after a binder of $x has finished
ScopeExprs ==
    {Comma(<<b, Variable("x")>>) : b \in Binders}
    \cup {Pipe(b, Variable("x")) : b \in Binders}
    \cup {VariableBind(Literal(Num(2)), "x", Comma(<<b, Variable("x")>>)) : b \in Binders}
    \cup {VariableBind(Literal(Num(2)), "x", Pipe(b, Variable("x"))) : b \in Binders}

PipeExprs == {Pipe(Pipe(A, B), C) : A \in Operands, B \in Operands, C \in Operands}

\* filters, some of which fail
Filters == {Identity, ErrorCall, Variable("y"), Each, Call0("empty"),
            BinaryOp("==", Identity, Literal(Num(1))),
            BinaryOp("-", Identity, Literal(Num(1)))}

FilterExprs ==
    {Call1("paths", f) : f \in Filters}
    \cup {Call1("del", Pipe(Each, f)) : f \in Filters}
    \cup {Call1("select", f) : f \in Filters}
    \cup {TryCatch(Call1("paths", f), NilNode) : f \in Filters}
    \cup {Optional(Call1("del", Pipe(Each, f))) : f \in Filters}
    \cup {Alternative(Call1("paths", f), Literal(Num(0))) : f \in Filters}

IterExprs == {Each, Iterator(Dot("a")), Call0("paths"), Pipe(Each, Each)}

\* assignment paths, with and without an iterator segment
AssignPaths == {Dot("a"), Dot("b"), At(0), At(1), At(-1), At(-2), FieldAccess(Dot("a"), "b"),
                Each, Iterator(Dot("a")), FieldAccess(Each, "b"),
                FieldAccess(Iterator(Dot("a")), "b"), IndexAccess(Each, 0)}
AssignOps == {"=", "|=", "+=", "-=", "*=", "//="}
AssignValues == {Identity, Literal(Num(1)), Literal(Null), Dot("b"), At(0),
                 Literal(Arr(<<Num(10)>>)),
                 BinaryOp("+", Identity, Literal(Num(1))), Call0("empty")}

AssignExprs == {Assign(p, op, v) : p \in AssignPaths, op \in AssignOps, v \in AssignValues}

\* del(P1, P2) and delpaths([p1, p2]) on index and field paths
DelIndexes == 0..(MaxLen - 1) \cup {-1}
PathLit(p) == Literal(Arr(p))
DelExprs ==
    {Call1("del", At(i)) : i \in DelIndexes}
    \cup {Call1("del", Comma(<<At(i), At(j)>>)) : i \in DelIndexes, j \in DelIndexes}
    \cup {Call1("delpaths", ArrayConstruct(Comma(<<PathLit(<<Num(i)>>), PathLit(<<Num(j)>>)>>)))
            : i \in DelIndexes, j \in DelIndexes}
    \cup {Call1("del", Dot("a")), Call1("del", Comma(<<Dot("a"), Dot("b")>>)),
          Call1("del", FieldAccess(Dot("a"), "b")), Call1("del", Each),
          Call1("del", Iterator(Dot("a"))), Call1("del", FieldAccess(Each, "b")),
          Call1("del", IndexAccess(Dot("a"), 0)), Call1("del", IndexAccess(Each, 0)),
          Call1("delpaths", ArrayConstruct(PathLit(<<Str("a"), Num(0)>>))),
          Call1("delpaths", Literal(Num(1)))}

\* pure path expressions: fields and indexes only
PathExprs == {Identity, Dot("a"), Dot("b"), At(0), At(1), At(-1),
              FieldAccess(Dot("a"), "b"), IndexAccess(Dot("a"), 0),
              IndexAccess(Dot("a"), -1), FieldAccess(At(0), "b")}

Call2(name, arg1, arg2) == FunctionCall(name, <<arg1, arg2>>)

\* setpath(path(P); getpath(path(P)))
RoundTrip(P) == Call2("setpath", Call1("path", P), Call1("getpath", Call1("path", P)))

\* path, getpath and setpath, on paths of expressions and on literal paths
\* whose negative index reaches before the start of the list
PathCallExprs ==
    {Call1("path", P) : P \in PathExprs \cup {Each}}
    \cup {Call1("getpath", Call1("path", P)) : P \in PathExprs}
    \cup {RoundTrip(P) : P \in PathExprs}
    \cup {Call2("setpath", PathLit(<<Num(-i)>>), v)
            : i \in 1..(MaxLen + 1), v \in {Literal(Num(1)), Identity, Call0("empty")}}
    \cup {Call2("setpath", PathLit(<<Str("a"), Num(-i)>>), Literal(Num(1)))
            : i \in 1..(MaxLen + 1)}
    \cup {Call2("setpath", Literal(Num(1)), Identity), Call1("getpath", Literal(Num(1))),
          Call2("setpath", ErrorCall, Identity), Call1("getpath", Call0("empty")),
          Call2("setpath", PathLit(<<>>), ErrorCall)}

\* member accesses, alone and under try ... catch 0 and ?
Accesses == {Dot("a"), Dot("b"), At(0), At(1), At(-1), FieldAccess(Dot("a"), "b"),
             IndexAccess(Dot("a"), 0)}
AccessExprs ==
    Accesses
    \cup {TryCatch(a, Literal(Num(0))) : a \in Accesses}
    \cup {Optional(a) : a \in Accesses}

\* A // B
AltOperands == {Identity, Each, Dot("a"), Literal(Bool(FALSE)), Literal(Null),
                Literal(Num(0)), ErrorCall, Call0("empty"),
                Comma(<<Literal(Null), Literal(Num(1)), Literal(Bool(FALSE)), Literal(Num(2))>>)}
AltExprs == {Alternative(A, B) : A \in AltOperands, B \in AltOperands}

\* A and B, A or B
BoolOperands == {Identity, Dot("a"), Literal(Bool(TRUE)), Literal(Bool(FALSE)), Literal(Null),
                 Literal(Num(0)), ErrorCall, Call0("empty")}
BoolExprs == {BinaryOp(op, A, B) : op \in {"and", "or"}, A \in BoolOperands, B \in BoolOperands}

\* A == B, A != B
EqOperands == {Identity, Dot("a"), At(0), Literal(Num(1)), Literal(Null),
               Literal(Decades(1)), Literal(Decades(2)), Literal(Arr(<<>>)),
               Literal(Obj([a |-> Num(1)])), Literal(Obj([a |-> Num(1), b |-> Num(2)]))}
EqExprs == {BinaryOp(op, A, B) : op \in {"==", "!="}, A \in EqOperands, B \in EqOperands}

\* A % B, alone and under try ... catch 0
ModOperands == {Identity, Dot("a"), Literal(Null), Literal(Frac(1)), Literal(Frac(-1)),
                Literal(Frac(3)), Literal(Frac(-5)), Literal(Num(7)), Literal(Num(-7))}
                \cup {Literal(Num(i)) : i \in -MaxNum..MaxNum}
ModExprs ==
    {BinaryOp("%", A, B) : A \in ModOperands, B \in ModOperands}
    \cup {TryCatch(BinaryOp("%", A, B), Literal(Str("caught"))) : A \in ModOperands, B \in ModOperands}

\* reduce EXPR as $x (INIT; UPDATE)
ReduceSources == {Each, Iterator(Dot("a")), Call0("empty"), ErrorCall,
                  Comma(<<Literal(Num(1)), Literal(Num(2))>>)}
ReduceInits == {Literal(Num(0)), Literal(Arr(<<>>)), Identity, Call0("empty")}
ReduceUpdates == {BinaryOp("+", Identity, Variable("x")),
                  BinaryOp("+", ArrayConstruct(Variable("x")), Identity),
                  BinaryOp("-", Identity, Variable("x")),
                  Variable("x"), Identity, Call0("empty"), ErrorCall,
                  Comma(<<Variable("x"), Identity>>)}
ReduceExprs == {Reduce(e, "x", i, u) : e \in ReduceSources, i \in ReduceInits,
                                      u \in ReduceUpdates}

\* length on the input document and on literals
LengthOperands == {Str(""), Str("ab"), Num(0 - MaxNum), Num(1), Null, Bool(TRUE)}
LengthExprs == {Call0("length")}
               \cup {Pipe(Literal(v), Call0("length")) : v \in LengthOperands}

\* "a" as $x | .[$x]   and   . as {a: $x} | $x
DispatchExprs ==
    {VariableBind(Literal(Str("a")), "x", DynamicIndex(NilNode, Variable("x"))),
     DestructureBind(Identity, [a |-> "x"], Variable("x"))}

\* A + B with operands of no, one or several values
ProductOperands == {Each, Literal(Num(1)), Call0("empty"),
                    Comma(<<Literal(Num(1)), Literal(Num(2))>>)}
ProductExprs == {BinaryOp("+", A, B) : A \in ProductOperands, B \in ProductOperands}

Exprs == ScopeExprs \cup PipeExprs \cup FilterExprs \cup IterExprs \cup AssignExprs
         \cup DelExprs \cup PathCallExprs \cup AccessExprs \cup AltExprs \cup BoolExprs
         \cup EqExprs \cup ModExprs \cup ReduceExprs \cup LengthExprs
         \cup DispatchExprs \cup ProductExprs

(***************************************************************************)
(* The evaluator as a state machine: Evaluate is called once on one        *)
(* expression and one input document.                                      *)
(***************************************************************************)
NoResult == [out |-> <<>>, err |-> "none", vars |-> NewVariables]
NoHeap == <<>>

InitEval ==
    /\ pc = "ready"
    /\ expr \in Exprs
    /\ input \in Inputs
    /\ mapOrder \in KeyOrders
    /\ result = NoResult
    /\ heap = NoHeap /\ root = Null /\ cur = Null /\ root0 = Null /\ steps = <<>>

Evaluate ==
    /\ pc = "ready"
    /\ result' = EvaluateAst(expr, input)
    /\ pc' = "done"
    /\ UNCHANGED <<expr, input, mapOrder, heap, root, cur, root0, steps>>

NextEval == Evaluate

Spec == InitEval /\ [][NextEval]_vars

(***************************************************************************)
(* Properties of the evaluator                                             *)
(***************************************************************************)
Done == pc = "done"
Succeeded == result.err = "none"
LastOut == result.out[Len(result.out)]

LeafBinders == {b \in Binders : b.t = "VariableBind"}

\* C2: a reference to $x evaluated after `E as $x | BODY` has finished, as a
\* later operand of a comma or of a pipe, fails as an unbound variable
\* whatever the binding evaluated before it.
C2_ReferenceOutsideBodyFails ==
    Done =>
      /\ expr \in {Comma(<<b, Variable("x")>>) : b \in LeafBinders} => result.err = "fail"
      /\ expr \in {Pipe(b, Variable("x")) : b \in LeafBinders} =>
            \/ result.err = "fail"
            \/ EvaluateAst(expr.left, input).out = <<>>

\* C3: inside `2 as $x | ...`, a reference to $x evaluated after a nested
\* `as $x` or `reduce ... as $x` has finished still sees 2.
C3_NestedBindingLeavesParent ==
    (Done /\ Succeeded) =>
      /\ expr \in {VariableBind(Literal(Num(2)), "x", Comma(<<b, Variable("x")>>))
                      : b \in Binders} => LastOut = Num(2)
      /\ expr \in {VariableBind(Literal(Num(2)), "x", Pipe(b, Variable("x")))
                      : b \in Binders} => \A i \in DOMAIN result.out : result.out[i] = Num(2)

\* C4: (A | B) | C and A | (B | C) both fail, or both produce the same
\* output sequence.
C4_PipeAssociative ==
    (Done /\ expr \in PipeExprs) =>
      LET other == EvaluateAst(Pipe(expr.left.left, Pipe(expr.left.right, expr.right)), input)
      IN \/ result.err # "none" /\ other.err # "none"
         \/ result.err = "none" /\ other.err = "none" /\ result.out = other.out

\* F fails when evaluated on value v
FailsOn(f, v) == Eval(f, <<v>>, NewVariables).err = "fail"

\* the values of a list or map
Members(v) ==
    IF IsArr(v) THEN {v.e[i] : i \in DOMAIN v.e}
    ELSE IF IsObj(v) THEN {v.m[key] : key \in DOMAIN v.m}
    ELSE {}

\* C5: a failure of the filter of paths(F), or of the selector of
\* del(.[] | F), that no try, ? or // encloses is the result of the whole
\* evaluation.
C5_FailurePropagates ==
    Done =>
      /\ (/\ expr \in {Call1("paths", f) : f \in Filters}
          /\ \E i \in DOMAIN collectPaths(input, <<>>) :
                FailsOn(expr.args[1], getPath(input, collectPaths(input, <<>>)[i]).v))
         => result.err = "fail"
      /\ (/\ expr \in {Call1("del", Pipe(Each, f)) : f \in Filters}
          /\ \E v \in Members(input) : FailsOn(expr.args[1].right, v))
         => result.err = "fail"

\* the values of map m in the order of its keys
ValuesInKeyOrder(m) ==
    SeqMap(LAMBDA key : m[key], SelectSeq(SortedKeys, LAMBDA key : key \in DOMAIN m))

\* C6: .[] on a mapping emits the mapping's values in one fixed order, that
\* of the mapping's keys, on every run.
C6_MapIterationOrderFixed ==
    (Done /\ expr = Each /\ IsObj(input)) =>
        Succeeded /\ result.out = ValuesInKeyOrder(input.m)

(***************************************************************************)
(* What an assignment is to produce, stated on the path's segments: a      *)
(* field, an index, or an iterator segment.  UpdateAt replaces the value   *)
(* at every position the path designates by F of it and leaves the rest    *)
(* alone; def is FALSE where this statement does not say what happens      *)
(* (a failing F, a type mismatch, an index outside the list).              *)
(***************************************************************************)
IterSeg == [k |-> "iter"]

RECURSIVE Segments(_)
Segments(e) ==
    IF e = NilNode \/ e.t = "Identity" THEN <<>>
    ELSE IF e.t = "FieldAccess" THEN Append(Segments(e.from), Str(e.field))
    ELSE IF e.t = "IndexAccess" THEN Append(Segments(e.from), Num(e.index))
    ELSE Append(Segments(e.from), IterSeg)

Defined(v) == [def |-> TRUE, v |-> v]
Undefined == [def |-> FALSE, v |-> Null]

RECURSIVE UpdateAt(_, _, _)
UpdateAt(F(_), value, segs) ==
    IF segs = <<>> THEN F(value)
    ELSE LET seg == Head(segs) IN
         IF IsStr(seg) THEN
            IF ~(IsObj(value) \/ IsNull(value)) THEN Undefined
            ELSE LET m == IF IsObj(value) THEN value.m ELSE EmptyMap
                     sub == UpdateAt(F, IF seg.s \in DOMAIN m THEN m[seg.s] ELSE Null,
                                     Tail(segs))
                 IN IF ~sub.def THEN Undefined
                    ELSE Defined(Obj([f \in DOMAIN m \cup {seg.s} |->
                                         IF f = seg.s THEN sub.v ELSE m[f]]))
         ELSE IF IsNum(seg) THEN
            IF ~IsArr(value) \/ seg.n < 0 \/ seg.n >= Len(value.e) THEN Undefined
            ELSE LET sub == UpdateAt(F, value.e[seg.n + 1], Tail(segs)) IN
                 IF ~sub.def THEN Undefined
                 ELSE Defined(Arr([value.e EXCEPT ![seg.n + 1] = sub.v]))
         ELSE IF IsArr(value) THEN
            LET subs == [i \in DOMAIN value.e |-> UpdateAt(F, value.e[i], Tail(segs))] IN
            IF \E i \in DOMAIN subs : ~subs[i].def THEN Undefined
            ELSE Defined(Arr([i \in DOMAIN value.e |-> subs[i].v]))
         ELSE IF IsObj(value) THEN
            LET subs == [key \in DOMAIN value.m |-> UpdateAt(F, value.m[key], Tail(segs))] IN
            IF \E key \in DOMAIN subs : ~subs[key].def THEN Undefined
            ELSE Defined(Obj([key \in DOMAIN value.m |-> subs[key].v]))
         ELSE Undefined

\* the first value of e evaluated on v, where there is one
FirstValue(e, v) ==
    LET r == Eval(e, <<v>>, NewVariables) IN
    IF r.err = "none" /\ r.out # <<>> THEN Defined(r.out[1]) ELSE Undefined

HasIterator(e) == \E i \in DOMAIN Segments(e) : Segments(e)[i] = IterSeg
\* navigation follows the iterator segment
NavigatesPastIterator(e) == HasIterator(e) /\ Segments(e)[Len(Segments(e))] # IterSeg

\* C7: PATH = EXPR evaluates EXPR on the root and writes its first value at
\* every position PATH designates, also when PATH has an iterator segment.
C7_AssignEvaluatesOnRoot ==
    (Done /\ expr.t = "Assign" /\ expr.op = "=" /\ FirstValue(expr.value, input).def) =>
        LET want == UpdateAt(LAMBDA old : FirstValue(expr.value, input), input,
                             Segments(expr.path))
        IN want.def => (Succeeded /\ result.out = <<want.v>>)

\* C8: PATH |= F with an iterator segment in PATH replaces, in every
\* element, the value at the rest of PATH by F of it, and nothing else.
C8_IteratorUpdateAtSubPath ==
    (Done /\ expr.t = "Assign" /\ expr.op = "|=" /\ HasIterator(expr.path)) =>
        LET want == UpdateAt(LAMBDA old : FirstValue(expr.value, old), input,
                             Segments(expr.path))
        IN want.def => (Succeeded /\ result.out = <<want.v>>)

\* the binary operator an assignment operator stands for
\* (x // y is x when x is neither null nor false, else y)
OperatorOf(op, x, y) ==
    CASE op = "+=" -> add(x, y)
      [] op = "-=" -> subtract(x, y)
      [] op = "*=" -> multiply(x, y)
      [] op = "//=" -> Good(IF isTruthy(x) THEN x ELSE y)

\* C9: PATH op= EXPR, for +=, -=, *= and //=, yields the root with the value
\* at PATH replaced by (value at PATH) op (first value of EXPR), and fails
\* exactly when that operator fails on the two values.
C9_CompoundAssignIsOperator ==
    (Done /\ expr.t = "Assign" /\ expr.op \in {"+=", "-=", "*=", "//="}
          /\ ~HasIterator(expr.path) /\ FirstValue(expr.value, input).def) =>
        LET y == FirstValue(expr.value, input).v
            want == UpdateAt(LAMBDA x : [def |-> OperatorOf(expr.op, x, y).err = "none",
                                         v |-> OperatorOf(expr.op, x, y).v],
                             input, Segments(expr.path))
            reached == UpdateAt(LAMBDA x : Defined(x), input, Segments(expr.path)).def
        IN reached => IF want.def THEN Succeeded /\ result.out = <<want.v>>
                      ELSE result.err = "fail"

\* list e without the elements at the (0-based) positions in drop
Without(e, drop) ==
    LET keep == SelectSeq([i \in DOMAIN e |-> i], LAMBDA i : (i - 1) \notin drop)
    IN [j \in DOMAIN keep |-> e[keep[j]]]

AscendingPairs == {<<i, j>> \in (0..(MaxLen - 1)) \X (0..(MaxLen - 1)) : i < j}

\* C10: del(.[i], .[j]) and delpaths([[i], [j]]) with i < j remove the
\* elements that had the indices i and j in the input.
C10_DeleteUsesOriginalIndices ==
    (Done /\ IsArr(input)) =>
      \A ij \in AscendingPairs :
        (/\ ij[2] < Len(input.e)
         /\ expr \in {Call1("del", Comma(<<At(ij[1]), At(ij[2])>>)),
                      Call1("delpaths", ArrayConstruct(Comma(<<PathLit(<<Num(ij[1])>>),
                                                               PathLit(<<Num(ij[2])>>)>>)))})
        => (Succeeded /\ result.out = <<Arr(Without(input.e, {ij[1], ij[2]}))>>)

(***************************************************************************)
(* Memory model.  The Go values are not immutable: a []any is a header     *)
(* (backing array, offset, length, capacity) and a map[string]any is a     *)
(* reference, so two values can share memory and a write through one is    *)
(* seen through the other.  Here the heap is explicit: heap[a] is a        *)
(* backing array or a map, and the operations are those of evaluator.go    *)
(* with their copies, their shared elements and their writes in place.     *)
(***************************************************************************)
HArr(cells) == [k |-> "array", cells |-> cells]
HMap(m) == [k |-> "hmap", m |-> m]
SliceOf(a, off, len, cap) == [k |-> "slice", arr |-> a, off |-> off, len |-> len, cap |-> cap]
MapRef(a) == [k |-> "map", ref |-> a]

IsSlice(v) == v.k = "slice"
IsMapRef(v) == v.k = "map"

\* the result of an operation on the heap: the heap afterwards and a value
HV(h, v) == [h |-> h, v |-> v]

\* the elements of slice s
CellsOf(h, s) == [i \in 1..s.len |-> h[s.arr].cells[s.off + i]]

\* make([]any, len, cap) holding cells
MakeSlice(h, cells, cap) ==
    HV(Append(h, HArr([i \in 1..cap |-> IF i <= Len(cells) THEN cells[i] ELSE Null])),
       SliceOf(Len(h) + 1, 0, Len(cells), cap))

\* make(map[string]any) holding m
MakeMap(h, m) == HV(Append(h, HMap(m)), MapRef(Len(h) + 1))

\* s[i] = x (i counted from 0): a write in place into the backing array
StoreIndex(h, s, i, x) == [h EXCEPT ![s.arr].cells[s.off + i + 1] = x]

\* m[key] = x: a write in place into the map
StoreKey(h, mref, key, x) ==
    [h EXCEPT ![mref.ref].m = [f \in DOMAIN h[mref.ref].m \cup {key} |->
                                  IF f = key THEN x ELSE h[mref.ref].m[f]]]

\* append(s, x): in place when the capacity allows, else into a new array
AppendSlice(h, s, x) ==
    IF s.len < s.cap
    THEN HV([h EXCEPT ![s.arr].cells[s.off + s.len + 1] = x],
            SliceOf(s.arr, s.off, s.len + 1, s.cap))
    ELSE MakeSlice(h, Append(CellsOf(h, s), x), IF s.cap = 0 THEN 1 ELSE 2 * s.cap)

\* the value a reference denotes, followed through at most fuel objects:
\* a chain of references longer than the heap has come back to an object
\* it went through, and the value is cyclic
Cyclic == [k |-> "cyclic"]
RECURSIVE DerefTo(_, _, _)
DerefTo(h, v, fuel) ==
    IF ~IsSlice(v) /\ ~IsMapRef(v) THEN v
    ELSE IF fuel = 0 THEN Cyclic
    ELSE IF IsSlice(v)
    THEN Arr([i \in 1..v.len |-> DerefTo(h, h[v.arr].cells[v.off + i], fuel - 1)])
    ELSE Obj([key \in DOMAIN h[v.ref].m |-> DerefTo(h, h[v.ref].m[key], fuel - 1)])

Deref(h, v) == DerefTo(h, v, Len(h))

\* a document laid out in fresh memory
RECURSIVE Build(_, _)
RECURSIVE BuildAll(_, _)
BuildAll(h, vals) ==
    IF vals = <<>> THEN HV(h, <<>>)
    ELSE LET b == Build(h, Head(vals))
             rest == BuildAll(b.h, Tail(vals))
         IN HV(rest.h, <<b.v>> \o rest.v)
Build(h, value) ==
    IF IsArr(value) THEN
        LET b == BuildAll(h, value.e) IN MakeSlice(b.h, b.v, Len(b.v))
    ELSE IF IsObj(value) THEN
        LET keys == SelectSeq(SortedKeys, LAMBDA key : key \in DOMAIN value.m)
            b == BuildAll(h, [i \in DOMAIN keys |-> value.m[keys[i]]])
        IN MakeMap(b.h, [key \in DOMAIN value.m |->
                            b.v[CHOOSE i \in DOMAIN keys : keys[i] = key]])
    ELSE HV(h, value)

\* copySlice without the copy: the slice itself
copySliceMem_Shared(h, s) == HV(h, s)

RECURSIVE deepCopyMem(_, _)
RECURSIVE CopyCells(_, _)
RECURSIVE copySliceMem(_, _)
RECURSIVE copyMapMem(_, _)

\* deepCopy of each cell in turn
CopyCells(h, cells) ==
    IF cells = <<>> THEN HV(h, <<>>)
    ELSE LET d == deepCopyMem(h, Head(cells))
             rest == CopyCells(d.h, Tail(cells))
         IN HV(rest.h, <<d.v>> \o rest.v)

copySliceMem(h, s) ==
    LET c == CopyCells(h, CellsOf(h, s)) IN MakeSlice(c.h, c.v, s.len)

copyMapMem(h, mref) ==
    LET m == h[mref.ref].m
        keys == SelectSeq(SortedKeys, LAMBDA key : key \in DOMAIN m)
        c == CopyCells(h, [i \in DOMAIN keys |-> m[keys[i]]])
    IN MakeMap(c.h, [key \in DOMAIN m |-> c.v[CHOOSE i \in DOMAIN keys : keys[i] = key]])

deepCopyMem(h, v) ==
    IF IsMapRef(v) THEN copyMapMem(h, v)
    ELSE IF IsSlice(v) THEN copySliceMem(h, v)
    ELSE HV(h, v)

\* v[s:e]: the same backing array, no copy
sliceValueMem(h, v, start, end) ==
    IF ~IsSlice(v) THEN HV(h, Null)
    ELSE LET length == v.len
             s0 == IF start = Null THEN 0
                   ELSE IF start.n < 0 THEN length + start.n ELSE start.n
             e0 == IF end = Null THEN length
                   ELSE IF end.n < 0 THEN length + end.n ELSE end.n
         IN IF s0 >= e0 \/ s0 >= length \/ e0 < 0 THEN MakeSlice(h, <<>>, 0)
            ELSE LET s1 == IF s0 < 0 THEN 0 ELSE s0
                     e1 == IF e0 > length THEN length ELSE e0
                 IN HV(h, SliceOf(v.arr, v.off + s1, e1 - s1, v.cap - s1))

accessIndexMem(h, v, index) ==
    IF ~IsSlice(v) THEN Null
    ELSE LET i == IF index < 0 THEN v.len + index ELSE index IN
         IF i < 0 \/ i >= v.len THEN Null ELSE h[v.arr].cells[v.off + i + 1]

accessFieldMem(h, v, field) ==
    IF IsMapRef(v) /\ field \in DOMAIN h[v.ref].m THEN h[v.ref].m[field] ELSE Null

\* the result of an operation that can fail
HVE(h, v, err) == [h |-> h, v |-> v, err |-> err]
OkMem(r) == HVE(r.h, r.v, "none")

\* the path expressions and values of the memory model: literals, the
\* current value and its members, none of which allocates
EvalMem(h, n, node) ==
    CASE n.t = "Literal" -> n.value
      [] n.t = "Identity" -> node
      [] n.t = "FieldAccess" -> accessFieldMem(h, node, n.field)
      [] n.t = "IndexAccess" -> accessIndexMem(h, node, n.index)

RECURSIVE getPathMem(_, _, _)
getPathMem(h, value, path) ==
    IF path = <<>> THEN HVE(h, value, "none")
    ELSE LET key == Head(path) IN
         IF IsStr(key) THEN
             IF ~IsMapRef(value) THEN HVE(h, Null, "fail")
             ELSE getPathMem(h, accessFieldMem(h, value, key.s), Tail(path))
         ELSE
             IF ~IsSlice(value) THEN HVE(h, Null, "fail")
             ELSE LET i == IF key.n < 0 THEN value.len + key.n ELSE key.n IN
                  IF i < 0 \/ i >= value.len THEN HVE(h, Null, "fail")
                  ELSE getPathMem(h, accessIndexMem(h, value, i), Tail(path))

\* for len(arr) <= idx { arr = append(arr, nil) }
RECURSIVE ExtendMem(_, _, _)
ExtendMem(h, arr, idx) ==
    IF arr.len > idx THEN HV(h, arr)
    ELSE LET a == AppendSlice(h, arr, Null) IN ExtendMem(a.h, a.v, idx)

RECURSIVE setPathRecursiveMem(_, _, _, _)
setPathRecursiveMem(h, value, path, newValue) ==
    IF path = <<>> THEN HVE(h, newValue, "none")
    ELSE LET key == Head(path)
             remainingPath == Tail(path)
         IN
         IF IsStr(key) THEN
             LET c == IF IsMapRef(value) THEN copyMapMem(h, value) ELSE MakeMap(h, EmptyMap)
             IN IF remainingPath = <<>>
                THEN HVE(StoreKey(c.h, c.v, key.s, newValue), c.v, "none")
                ELSE LET existing == accessFieldMem(c.h, c.v, key.s)
                         updated == setPathRecursiveMem(c.h, existing, remainingPath, newValue)
                     IN IF updated.err # "none" THEN HVE(updated.h, Null, updated.err)
                        ELSE HVE(StoreKey(updated.h, c.v, key.s, updated.v), c.v, "none")
         ELSE
             LET c == IF IsSlice(value) THEN copySliceMem(h, value) ELSE MakeSlice(h, <<>>, 0)
                 idx == IF key.n < 0 THEN c.v.len + key.n ELSE key.n
             IN IF idx < 0 THEN HVE(c.h, Null, "panic")
                ELSE LET x == ExtendMem(c.h, c.v, idx) IN
                     IF remainingPath = <<>>
                     THEN HVE(StoreIndex(x.h, x.v, idx, newValue), x.v, "none")
                     ELSE LET existing == accessIndexMem(x.h, x.v, idx)
                              updated == setPathRecursiveMem(x.h, existing, remainingPath, newValue)
                          IN IF updated.err # "none" THEN HVE(updated.h, Null, updated.err)
                             ELSE HVE(StoreIndex(updated.h, x.v, idx, updated.v), x.v, "none")

setPathMem(h, value, path, newValue) ==
    IF path = <<>> THEN HVE(h, newValue, "none")
    ELSE IF value = Null THEN
        LET c == IF IsStr(Head(path)) THEN MakeMap(h, EmptyMap) ELSE MakeSlice(h, <<>>, 0)
        IN setPathRecursiveMem(c.h, c.v, path, newValue)
    ELSE setPathRecursiveMem(h, value, path, newValue)

\* delete(m, key) on the map at mref
DeleteKey(h, mref, key) ==
    [h EXCEPT ![mref.ref].m = [f \in DOMAIN h[mref.ref].m \ {key} |-> h[mref.ref].m[f]]]

RECURSIVE deletePathMem(_, _, _)
deletePathMem(h, value, path) ==
    IF path = <<>> THEN HV(h, Null)
    ELSE LET key == Head(path)
             remainingPath == Tail(path)
         IN
         IF IsStr(key) THEN
             IF ~IsMapRef(value) THEN HV(h, value)
             ELSE LET c == copyMapMem(h, value) IN
                  IF remainingPath = <<>> THEN HV(DeleteKey(c.h, c.v, key.s), c.v)
                  ELSE IF key.s \notin DOMAIN c.h[c.v.ref].m THEN c
                  ELSE LET updated == deletePathMem(c.h, c.h[c.v.ref].m[key.s], remainingPath)
                       IN HV(StoreKey(updated.h, c.v, key.s, updated.v), c.v)
         ELSE
             IF ~IsSlice(value) THEN HV(h, value)
             ELSE LET idx == IF key.n < 0 THEN value.len + key.n ELSE key.n IN
                  IF idx < 0 \/ idx >= value.len THEN HV(h, value)
                  ELSE IF remainingPath = <<>> THEN
                      LET cells == CellsOf(h, value) IN
                      MakeSlice(h, SubSeq(cells, 1, idx) \o SubSeq(cells, idx + 2, Len(cells)),
                                value.len - 1)
                  ELSE LET c == copySliceMem(h, value)
                           updated == deletePathMem(c.h, accessIndexMem(c.h, c.v, idx),
                                                    remainingPath)
                       IN HV(StoreIndex(updated.h, c.v, idx, updated.v), c.v)

\* for k, v := range bv { result[k] = v }
RECURSIVE StoreAll(_, _, _, _)
StoreAll(h, mref, keys, from) ==
    IF keys = <<>> THEN h
    ELSE StoreAll(StoreKey(h, mref, Head(keys), from[Head(keys)]), mref, Tail(keys), from)

KeysOf(h, mref) == SelectSeq(SortedKeys, LAMBDA key : key \in DOMAIN h[mref.ref].m)

addValuesMem(h, a, b) ==
    IF a = Null THEN HVE(h, b, "none")
    ELSE IF b = Null THEN HVE(h, a, "none")
    ELSE IF IsNum(a) /\ IsNum(b) THEN HVE(h, Num(a.n + b.n), "none")
    ELSE IF IsSlice(a) /\ IsSlice(b) THEN
        OkMem(MakeSlice(h, CellsOf(h, a) \o CellsOf(h, b), a.len + b.len))
    ELSE IF IsMapRef(a) /\ IsMapRef(b) THEN
        LET c == copyMapMem(h, a) IN
        HVE(StoreAll(c.h, c.v, KeysOf(c.h, b), c.h[b.ref].m), c.v, "none")
    ELSE HVE(h, Null, "fail")

addMem(h, left, right) ==
    IF left = Null THEN HVE(h, right, "none")
    ELSE IF right = Null THEN HVE(h, left, "none")
    ELSE IF IsNum(left) /\ IsNum(right) THEN HVE(h, Num(left.n + right.n), "none")
    ELSE IF IsSlice(left) /\ IsSlice(right) THEN
        OkMem(MakeSlice(h, CellsOf(h, left) \o CellsOf(h, right), left.len + right.len))
    ELSE IF IsMapRef(left) /\ IsMapRef(right) THEN
        LET c == MakeMap(h, EmptyMap)
            h1 == StoreAll(c.h, c.v, KeysOf(c.h, left), c.h[left.ref].m)
        IN HVE(StoreAll(h1, c.v, KeysOf(h1, right), h1[right.ref].m), c.v, "none")
    ELSE HVE(h, Null, "fail")

\* PATH = VALUE and PATH += VALUE on node, for a path without iterator
evalAssignMem(h, op, path, valueExpr, node) ==
    LET modified == deepCopyMem(h, node)
        newValue == EvalMem(modified.h, valueExpr, node)
    IN IF op = "=" THEN setPathMem(modified.h, modified.v, path, newValue)
       ELSE IF op = "+=" THEN
           LET got == getPathMem(modified.h, modified.v, path)
               currentValue == IF got.err = "none" THEN got.v ELSE Null
               sum == addValuesMem(modified.h, currentValue, newValue)
           IN IF sum.err # "none" THEN sum
              ELSE setPathMem(sum.h, modified.v, path, sum.v)
       ELSE HVE(modified.h, Null, "fail")

\* del(PATH) on node, for a path without iterator
evalDelMem(h, path, node) ==
    LET modified == deepCopyMem(h, node) IN OkMem(deletePathMem(modified.h, modified.v, path))

(***************************************************************************)
(* The memory state machine: an input document in memory, and a pipeline   *)
(* of operations built one stage at a time, each applied to the value the  *)
(* stage before it produced.  root is the input, cur the current value,    *)
(* steps the stages applied so far.                                        *)
(***************************************************************************)
MaxSteps == 2    \* stages of a pipeline

MemInputs ==
    {Decades(len) : len \in 1..MaxLen}
    \cup {Arr(<<Decades(1), Decades(2)>>),
          Obj([a |-> Decades(2)]),
          Obj([a |-> Num(1), b |-> Num(2)]),
          Arr(<<Obj([a |-> Num(1), b |-> Num(2)]), Obj([b |-> Num(1)])>>)}

MemPaths ==
    {<<Num(0)>>, <<Num(-1)>>, <<Num(MaxLen)>>, <<Str("a")>>,
     <<Num(0), Num(1)>>, <<Str("a"), Num(0)>>, <<Num(0), Str("b")>>}

MemValues == {Literal(Num(1)), Identity, At(0), Dot("a")}

MemBounds == {<<Null, Num(1)>>, <<Num(1), Null>>, <<Null, Num(-1)>>, <<Num(1), Num(1)>>}

InitMem ==
    /\ pc = "mem"
    /\ expr = Identity
    /\ input \in MemInputs
    /\ mapOrder = SortedKeys
    /\ result = NoResult
    /\ heap = Build(NoHeap, input).h
    /\ root = Build(NoHeap, input).v
    /\ cur = root
    /\ root0 = input
    /\ steps = <<>>

\* one more stage: the memory after it, its output the next current value
Stage(r, name) ==
    /\ pc = "mem"
    /\ Len(steps) < MaxSteps
    /\ heap' = r.h
    /\ cur' = IF r.err = "none" THEN r.v ELSE Null
    /\ steps' = Append(steps, name)
    /\ UNCHANGED <<pc, expr, input, mapOrder, result, root, root0>>

\* | .[s:e]
MemSlice == \E b \in MemBounds : Stage(OkMem(sliceValueMem(heap, cur, b[1], b[2])), "slice")

\* | .a   and   | .[i]
MemAccess == \E n \in {At(0), At(1), Dot("a")} : Stage(HVE(heap, EvalMem(heap, n, cur), "none"), "access")

\* | PATH = VALUE   and   | PATH += VALUE
MemAssign ==
    \E op \in {"=", "+="}, path \in MemPaths, v \in MemValues :
        Stage(evalAssignMem(heap, op, path, v, cur), "assign")

\* | del(PATH)
MemDel == \E path \in MemPaths : Stage(evalDelMem(heap, path, cur), "del")

\* | . + VALUE
MemAdd == \E v \in MemValues : Stage(addMem(heap, cur, EvalMem(heap, v, cur)), "add")

NextMem == MemSlice \/ MemAccess \/ MemAssign \/ MemDel \/ MemAdd

SpecMem == InitMem /\ [][NextMem]_vars

\* C1: no operation changes the input document: in every state of every
\* pipeline the input, read through memory with all the lists and mappings
\* reachable from it, is the document the pipeline was given.
C1_InputUnchanged == pc = "mem" => Deref(heap, root) = root0

\* a pipeline that took a slice of the input list and assigned into it has
\* run: its output is a document other than the input, and one of its
\* elements is the slice, a view of the memory of the input
C1_SliceThenAssign ==
    /\ pc = "mem"
    /\ steps = <<"slice", "assign">>
    /\ IsSlice(cur)
    /\ Deref(heap, cur) # root0
    /\ \E i \in 1..cur.len :
          LET c == heap[cur.arr].cells[cur.off + i]
          IN IsSlice(c) /\ c.arr = root.arr /\ c.off > 0

(***************************************************************************)
(* Deletion, paths and operators                                           *)
(***************************************************************************)
\* the index a path segment designates in a list of length len
Resolve(n, len) == IF n < 0 THEN len + n ELSE n

\* The entries that the segments designate in value before are gone from
\* after: the key is absent, the list is the list before with the element
\* taken out, the iterated container is empty.  Where the segments designate
\* nothing in before, nothing is said.
RECURSIVE Gone(_, _, _)
Gone(after, before, segs) ==
    LET seg == Head(segs)
        rest == Tail(segs)
    IN
    IF IsStr(seg) THEN
        (IsObj(before) /\ seg.s \in DOMAIN before.m) =>
            /\ IsObj(after)
            /\ IF rest = <<>> THEN seg.s \notin DOMAIN after.m
               ELSE /\ seg.s \in DOMAIN after.m
                    /\ Gone(after.m[seg.s], before.m[seg.s], rest)
    ELSE IF IsNum(seg) THEN
        LET i == IF IsArr(before) THEN Resolve(seg.n, Len(before.e)) ELSE -1 IN
        (IsArr(before) /\ i >= 0 /\ i < Len(before.e)) =>
            /\ IsArr(after)
            /\ IF rest = <<>>
               THEN after.e = SubSeq(before.e, 1, i) \o SubSeq(before.e, i + 2, Len(before.e))
               ELSE /\ Len(after.e) = Len(before.e)
                    /\ Gone(after.e[i + 1], before.e[i + 1], rest)
    ELSE IF IsArr(before) THEN
        /\ IsArr(after)
        /\ IF rest = <<>> THEN after.e = <<>>
           ELSE /\ Len(after.e) = Len(before.e)
                /\ \A i \in DOMAIN before.e : Gone(after.e[i], before.e[i], rest)
    ELSE IF IsObj(before) THEN
        /\ IsObj(after)
        /\ IF rest = <<>> THEN DOMAIN after.m = {}
           ELSE /\ DOMAIN after.m = DOMAIN before.m
                /\ \A key \in DOMAIN before.m : Gone(after.m[key], before.m[key], rest)
    ELSE TRUE

\* del of one path expression: fields, indexes, iterators
IsDelOfPath ==
    /\ expr.t = "FunctionCall"
    /\ expr.name = "del"
    /\ expr.args[1].t \in {"FieldAccess", "IndexAccess", "Iterator"}

\* C11: after del(P) has succeeded, for P a path of fields, indexes and
\* iterators at the root or below it, the entries P designates in the input
\* are gone from the result.
C11_DelRemoves ==
    (Done /\ IsDelOfPath /\ Succeeded) =>
        /\ Len(result.out) = 1
        /\ Gone(result.out[1], input, Segments(expr.args[1]))

\* the list the segments lead to in value, where they lead to one:
\* every segment but the last is followed, a missing field or a null being
\* an empty list to come
RECURSIVE ListAt(_, _)
ListAt(value, segs) ==
    IF Len(segs) = 1 THEN
        IF IsArr(value) THEN Defined(value)
        ELSE IF IsNull(value) THEN Defined(Arr(<<>>))
        ELSE Undefined
    ELSE IF IsStr(Head(segs)) THEN
        IF IsObj(value) /\ Head(segs).s \in DOMAIN value.m
        THEN ListAt(value.m[Head(segs).s], Tail(segs))
        ELSE IF IsObj(value) \/ IsNull(value) THEN ListAt(Null, Tail(segs))
        ELSE Undefined
    ELSE Undefined

\* the last segment is a negative index whose magnitude exceeds the length
\* of the list it is applied to
Unresolvable(value, segs) ==
    /\ segs # <<>>
    /\ IsNum(segs[Len(segs)])
    /\ segs[Len(segs)].n < 0
    /\ ListAt(value, segs).def
    /\ Resolve(segs[Len(segs)].n, Len(ListAt(value, segs).v.e)) < 0

\* an assignment or a setpath that has a value to write at the path segs
WritesAt(segs) ==
    \/ /\ expr.t = "Assign"
       /\ expr.op \in {"=", "+="}
       /\ ~extractPath(expr.path).err
       /\ segs = extractPath(expr.path).path
       /\ FirstValue(expr.value, input).def
    \/ /\ expr.t = "FunctionCall"
       /\ expr.name = "setpath"
       /\ FirstValue(expr.args[1], input).def
       /\ IsArr(FirstValue(expr.args[1], input).v)
       /\ segs = FirstValue(expr.args[1], input).v.e
       /\ FirstValue(expr.args[2], input).def

\* C12: a write, by = or += or setpath, through a path whose negative index
\* reaches before the start of the list ends in an evaluation failure: not
\* in an abort of the program and not in a result.
C12_UnresolvableIndexFails ==
    Done =>
      \A segs \in {<<Num(-i)>> : i \in 1..(MaxLen + 1)}
                  \cup {<<Str("a"), Num(-i)>> : i \in 1..(MaxLen + 1)} :
          (WritesAt(segs) /\ Unresolvable(input, segs)) => result.err = "fail"

\* the value getpath(path(P)) yields on the input
GetAtPath(P) == EvaluateAst(Call1("getpath", Call1("path", P)), input)

IsRoundTrip ==
    /\ expr.t = "FunctionCall"
    /\ expr.name = "setpath"
    /\ \E P \in PathExprs : expr = RoundTrip(P)

\* C13: where getpath(path(P)) on the input is not null, for P a path of
\* fields and indexes, setpath(path(P); getpath(path(P))) yields the input.
C13_PathRoundTrip ==
    (Done /\ IsRoundTrip) =>
        LET got == GetAtPath(expr.args[1].args[1]) IN
        (got.err = "none" /\ got.out # <<>> /\ got.out[1] # Null) =>
            (Succeeded /\ result.out = <<input>>)

\* the round trip through .a[-1] has run on {a: [10, 20]}, where the path
\* leads to 20
C13_RoundTripDone ==
    /\ Done
    /\ expr = RoundTrip(IndexAccess(Dot("a"), -1))
    /\ input = Obj([a |-> Decades(2)])
    /\ GetAtPath(IndexAccess(Dot("a"), -1)).out = <<Num(20)>>
    /\ result.out = <<input>>

\* a field access on a value that is neither a mapping nor null, or an
\* index access on a value that is neither a list nor null
Mistyped(a, v) ==
    \/ a \in {Dot("a"), Dot("b")} /\ ~IsObj(v) /\ ~IsNull(v)
    \/ a \in {At(0), At(1), At(-1)} /\ ~IsArr(v) /\ ~IsNull(v)

\* C14: a field access on a value that is neither mapping nor null, and an
\* index access on a value that is neither list nor null, fails; under
\* try ... catch the handler's value is the result; under ? there is no
\* failure.
C14_AccessTypeError ==
    Done =>
      /\ (expr \in Accesses /\ Mistyped(expr, input)) => result.err = "fail"
      /\ (expr.t = "TryCatch" /\ expr \in AccessExprs /\ Mistyped(expr.try, input))
            => (Succeeded /\ result.out = <<Num(0)>>)
      /\ (expr.t = "Optional" /\ expr \in AccessExprs /\ Mistyped(expr.expr, input))
            => Succeeded

\* the values of a sequence that are neither null nor false
Truthy(out) == SelectSeq(out, LAMBDA v : isTruthy(v))

\* C15: A // B emits the values of A that are neither null nor false, in
\* A's order, when there is one; when A has none, emits nothing or fails,
\* it is B: B's values, or B's failure.
C15_AlternativeEmitsTruthy ==
    (Done /\ expr \in AltExprs) =>
        LET a == EvaluateAst(expr.left, input)
            b == EvaluateAst(expr.right, input)
        IN IF a.err = "none" /\ Truthy(a.out) # <<>>
           THEN Succeeded /\ result.out = Truthy(a.out)
           ELSE result.err = b.err /\ result.out = b.out

\* C16: when the left operand of `and` has a first value that is null or
\* false, the result is false, and when the left operand of `or` has a
\* first value that is neither, the result is true, whatever the right
\* operand is: also when it fails or emits nothing.
C16_AndOrShortCircuit ==
    (Done /\ expr \in BoolExprs) =>
        LET a == FirstValue(expr.left, input) IN
        /\ (expr.op = "and" /\ a.def /\ ~isTruthy(a.v))
              => (Succeeded /\ result.out = <<Bool(FALSE)>>)
        /\ (expr.op = "or" /\ a.def /\ isTruthy(a.v))
              => (Succeeded /\ result.out = <<Bool(TRUE)>>)

\* two values are the same value: lists of the same length with the same
\* elements in order, mappings with the same keys and the same values
RECURSIVE SameValue(_, _)
SameValue(x, y) ==
    IF IsArr(x) /\ IsArr(y) THEN
        /\ Len(x.e) = Len(y.e)
        /\ \A i \in DOMAIN x.e : SameValue(x.e[i], y.e[i])
    ELSE IF IsObj(x) /\ IsObj(y) THEN
        /\ DOMAIN x.m = DOMAIN y.m
        /\ \A key \in DOMAIN x.m : SameValue(x.m[key], y.m[key])
    ELSE IF IsArr(x) \/ IsArr(y) \/ IsObj(x) \/ IsObj(y) THEN FALSE
    ELSE x = y

\* C17: A == B is true exactly when the two values are the same value,
\* lists element by element and mappings key by key, so that v == v is true
\* for every v; A != B is its negation.
C17_EqualsStructural ==
    (Done /\ expr \in EqExprs) =>
        LET a == FirstValue(expr.left, input)
            b == FirstValue(expr.right, input)
        IN (a.def /\ b.def) =>
            /\ Succeeded
            /\ result.out = <<Bool(IF expr.op = "==" THEN SameValue(a.v, b.v)
                                   ELSE ~SameValue(a.v, b.v))>>

\* a number, whole or not
IsNumber(v) == IsNum(v) \/ IsFrac(v)

\* the number v with its fractional part dropped
Truncated(v) == IF IsNum(v) THEN v.n ELSE Int64(v.h)

\* x % y and try (x % y) catch "caught"
IsModulo(e) == e.t = "BinaryOp" /\ e.op = "%"

\* C18: for numbers x and y, x % y is the remainder of x and y truncated to
\* integers; when the divisor is zero, as written or once truncated, the
\* evaluation fails, and under try the handler's value is the result.
C18_ModuloTruncates ==
    (Done /\ expr \in ModExprs) =>
        LET e == IF expr.t = "TryCatch" THEN expr.try ELSE expr
            x == FirstValue(e.left, input)
            y == FirstValue(e.right, input)
        IN (x.def /\ y.def /\ IsNumber(x.v) /\ IsNumber(y.v)) =>
            IF Truncated(y.v) = 0
            THEN IF expr.t = "TryCatch"
                 THEN Succeeded /\ result.out = <<Str("caught")>>
                 ELSE result.err = "fail"
            ELSE /\ Succeeded
                 /\ result.out = <<Num(Remainder(Truncated(x.v), Truncated(y.v)))>>

\* The left fold of update over items from acc: each step is update
\* evaluated on the accumulator with $name bound to the item.  st is "ok"
\* with the final accumulator, "fail" when a step fails, and "open" when a
\* step emits no value or more than one, where the fold is not stated.
RECURSIVE FoldLeft(_, _, _, _)
FoldLeft(update, name, acc, items) ==
    IF items = <<>> THEN [st |-> "ok", v |-> acc]
    ELSE LET step == Eval(update, <<acc>>, [NewVariables EXCEPT ![name] = Head(items)]) IN
         IF step.err # "none" THEN [st |-> "fail", v |-> Null]
         ELSE IF Len(step.out) # 1 THEN [st |-> "open", v |-> Null]
         ELSE FoldLeft(update, name, step.out[1], Tail(items))

\* C19: reduce EXPR as $x (INIT; UPDATE) emits one value, the left fold of
\* UPDATE over the values of EXPR in the order EXPR emitted them, from the
\* value of INIT on the outer current value; a failing step fails the
\* reduce.
C19_ReduceIsLeftFold ==
    (Done /\ expr \in ReduceExprs) =>
        LET init == EvaluateAst(expr.init, input)
            items == EvaluateAst(expr.expr, input)
        IN (init.err = "none" /\ Len(init.out) = 1 /\ items.err = "none") =>
            LET want == FoldLeft(expr.update, expr.name, init.out[1], items.out) IN
            /\ want.st = "ok" => (Succeeded /\ result.out = <<want.v>>)
            /\ want.st = "fail" => result.err = "fail"

\* reduce .[] as $x ([]; [$x] + .) has run on [10, 20, 30] and emitted the
\* list in reverse
C19_ReduceReversed ==
    /\ Done
    /\ expr = Reduce(Each, "x", Literal(Arr(<<>>)),
                     BinaryOp("+", ArrayConstruct(Variable("x")), Identity))
    /\ input = Decades(3)
    /\ result.out = <<Arr(<<Num(30), Num(20), Num(10)>>)>>

\* B evaluated on each of the values, in the scope of the pipe
OnEach(B, values) == [i \in DOMAIN values |-> EvaluateAst(B, values[i])]

\* C20: A | B emits, in the order A emitted its values, the outputs of B
\* evaluated on each value of A, one after the other; when A fails, or B
\* fails on a value of A, the pipe fails.
C20_PipeConcatenates ==
    (Done /\ expr.t = "Pipe") =>
        LET a == EvaluateAst(expr.left, input) IN
        IF a.err # "none" THEN result.err # "none"
        ELSE LET bs == OnEach(expr.right, a.out) IN
             IF \E i \in DOMAIN bs : bs[i].err # "none" THEN result.err # "none"
             ELSE /\ Succeeded
                  /\ result.out = Flatten([i \in DOMAIN bs |-> bs[i].out])

(***************************************************************************)
(* Slicing: Evaluate called on one slice expression .[start:end] and one   *)
(* list, string or other document.                                         *)
(***************************************************************************)
Letters(len) == Str(SubSeq("abcdefgh", 1, len))
SliceInputs ==
    {Decades(len) : len \in 0..MaxLen} \cup {Letters(len) : len \in 0..MaxLen}
    \cup {Null, Num(1)}
OptBounds == {<<>>} \cup {<<i>> : i \in (0 - (MaxLen + 1))..(MaxLen + 1)}
SliceExprs == {Slice(f, s, e) : f \in {NilNode, Identity}, s \in OptBounds, e \in OptBounds}

InitSlice ==
    /\ pc = "ready"
    /\ expr \in SliceExprs
    /\ input \in SliceInputs
    /\ mapOrder = SortedKeys
    /\ result = NoResult
    /\ heap = NoHeap /\ root = Null /\ cur = Null /\ root0 = Null /\ steps = <<>>

SpecSlice == InitSlice /\ [][NextEval]_vars

Sliceable(v) == IsArr(v) \/ IsStr(v)
Elements(v) == IF IsArr(v) THEN v.e ELSE v.s
Rewrap(v, elems) == IF IsArr(v) THEN Arr(elems) ELSE Str(elems)

\* C21: for a list or string of length n and any absent, non-negative or
\* negative start and end, the bounds s, e with which the slice is taken
\* satisfy 0 <= s <= e <= n; the slice does not fail and is the part of
\* the value between positions s and e.
C21_SliceBoundsInRange ==
    (Done /\ expr.t = "Slice" /\ Sliceable(input)) =>
        LET n == Len(Elements(input))
            b == sliceBounds(expr.start, expr.end, n)
        IN  /\ Succeeded
            /\ Len(result.out) = 1
            /\ Sliceable(result.out[1])
            /\ b.empty => Len(Elements(result.out[1])) = 0
            /\ ~b.empty =>
                 /\ 0 <= b.s /\ b.s <= b.e /\ b.e <= n
                 /\ Len(Elements(result.out[1])) = b.e - b.s
                 /\ input = Rewrap(input, SubSeq(Elements(input), 1, b.s)
                                          \o Elements(result.out[1])
                                          \o SubSeq(Elements(input), b.e + 1, n))

\* a start before the beginning and an end past the end are both clamped
C21_BothBoundsClamped ==
    /\ Done /\ expr.t = "Slice" /\ IsStr(input) /\ Len(input.s) > 0
    /\ expr.start # <<>> /\ expr.end # <<>>
    /\ expr.start[1] + Len(input.s) < 0 /\ expr.end[1] > Len(input.s)
    /\ Succeeded /\ result.out = <<input>>

\* the value length is applied to
LengthArg == IF expr.t = "Pipe" THEN expr.left.value ELSE input
Abs(n) == IF n < 0 THEN 0 - n ELSE n

\* C25: length emits the element count of a list, the key count of a
\* mapping and the length of a string; on null it emits null, and on a
\* number the number's absolute value.
C25_LengthByKind ==
    (Done /\ expr \in LengthExprs /\ LengthArg.k \in {"arr", "obj", "str", "null", "num"}) =>
        /\ Succeeded
        /\ result.out = <<CASE IsArr(LengthArg) -> Num(Len(LengthArg.e))
                            [] IsObj(LengthArg) -> Num(Cardinality(DOMAIN LengthArg.m))
                            [] IsStr(LengthArg) -> Num(Len(LengthArg.s))
                            [] IsNull(LengthArg) -> Null
                            [] IsNum(LengthArg) -> Num(Abs(LengthArg.n))>>

\* C26: every node kind the parser produces has an evaluation rule: on a
\* mapping, the dynamic index `"a" as $x | .[$x]` and the destructuring
\* binding `. as {a: $x} | $x` are evaluated, each emitting the value of the
\* field a (null when the mapping has no a), and do not fail.
C26_EveryNodeKindEvaluated ==
    (Done /\ expr \in DispatchExprs /\ IsObj(input)) =>
        /\ Succeeded
        /\ result.out = <<IF "a" \in DOMAIN input.m THEN input.m["a"] ELSE Null>>

\* [op(x, y) : x in xs, y in ys], x-major
RECURSIVE Pairwise(_, _, _)
Pairwise(op, xs, ys) ==
    IF xs = <<>> THEN <<>>
    ELSE SeqMap(LAMBDA y : applyBinaryOp(op, Head(xs), y), ys) \o Pairwise(op, Tail(xs), ys)

\* C27: where a and b evaluate without error and op is defined on every
\* pair of their values, a OP b emits op(x, y) for every value x of a and
\* every value y of b; in particular it emits nothing, and does not fail,
\* when a or b emits nothing.
C27_BinaryOpOverAllValues ==
    (Done /\ expr \in ProductExprs) =>
        LET a == EvaluateAst(expr.left, input)
            b == EvaluateAst(expr.right, input)
            pairs == Pairwise(expr.op, a.out, b.out)
        IN  (a.err = "none" /\ b.err = "none"
             /\ \A i \in 1..Len(pairs) : pairs[i].err = "none") =>
                /\ Succeeded
                /\ result.out = [i \in 1..Len(pairs) |-> pairs[i].v]

\* C28: an assignment PATH = V, PATH |= F or PATH OP= V that does not fail
\* emits exactly one value for the one input document, whether or not PATH
\* has an iterator segment and whether or not the right-hand side emits
\* any value.
C28_AssignEmitsOnePerInput ==
    (Done /\ expr.t = "Assign" /\ Succeeded) => Len(result.out) = 1

\* C30: every call of evaluate made while Evaluate runs receives a context
\* of exactly one matching node: no evaluation reports a call with none or
\* several.
C30_OneNodePerCall == Done => result.err # "multi"

\* a pipe whose left side emitted several values has run its right side on
\* each of them
C30_PipeOverSeveral ==
    /\ Done /\ expr.t = "Pipe" /\ Succeeded
    /\ Len(EvaluateAst(expr.left, input).out) >= 2
    /\ Len(result.out) >= 2

(***************************************************************************)
(* The parser (parser.go), on the token sequence that Parse hands to       *)
(* parseExpression.  A token is its text.  The token alphabet of the model *)
(* is: the numbers of Digits, the identifiers a and b, the variables $x    *)
(* and $y, the keywords, the operators of getOperatorPrecedence, and the   *)
(* punctuation . ( ) [ ] { } : , ?  Strings, reduce, object construction   *)
(* and the argument separator ; are outside it.                            *)
(***************************************************************************)
Digits == <<"1", "2", "3", "4", "5", "6">>
NumberTokens == {Digits[i] : i \in DOMAIN Digits}
ParseFloat(s) == CHOOSE i \in DOMAIN Digits : Digits[i] = s
IdentTokens == {"a", "b"}
VariableTokens == {"$x", "$y"}
VarNameOf(tok) == IF tok = "$x" THEN "x" ELSE "y"
KeywordTokens == {"if", "then", "elif", "else", "end", "as", "and", "or", "not", "true",
                  "false", "null", "try", "catch", "reduce", "foreach", "def", "empty"}
isTokenType(tok, typeName) ==
    CASE typeName = "Number" -> tok \in NumberTokens
      [] typeName = "Ident" -> tok \in IdentTokens
      [] typeName = "Variable" -> tok \in VariableTokens
      [] typeName = "Keyword" -> tok \in KeywordTokens
      [] OTHER -> FALSE

UnaryOp(op, e) == [t |-> "UnaryOp", op |-> op, expr |-> e]
Conditional(cond, then, else) ==
    [t |-> "Conditional", condition |-> cond, then |-> then, else |-> else]

\* what a parse function returns: (node, rest, nil) or (nil, nil, err)
Parsed(node, rest) == [node |-> node, rest |-> rest, err |-> FALSE]
ParseError == [node |-> NilNode, rest |-> <<>>, err |-> TRUE]
Drop(tokens, k) == SubSeq(tokens, k + 1, Len(tokens))

AssignOperators == {"=", "|=", "+=", "-=", "*=", "//="}

\* the table with every level grouping left-to-right
getOperatorPrecedence_AllLeft(op) ==
    CASE op \in AssignOperators -> [prec |-> 0, rightAssoc |-> FALSE]
      [] op = "|" -> [prec |-> 1, rightAssoc |-> FALSE]
      [] op = "," -> [prec |-> 2, rightAssoc |-> FALSE]
      [] op = "as" -> [prec |-> 3, rightAssoc |-> FALSE]
      [] op = "//" -> [prec |-> 4, rightAssoc |-> FALSE]
      [] op = "or" -> [prec |-> 5, rightAssoc |-> FALSE]
      [] op = "and" -> [prec |-> 6, rightAssoc |-> FALSE]
      [] op \in {"==", "!="} -> [prec |-> 7, rightAssoc |-> FALSE]
      [] op \in {"<", ">", "<=", ">="} -> [prec |-> 8, rightAssoc |-> FALSE]
      [] op \in {"+", "-"} -> [prec |-> 9, rightAssoc |-> FALSE]
      [] op \in {"*", "/", "%"} -> [prec |-> 10, rightAssoc |-> FALSE]
      [] OTHER -> [prec |-> 0 - 1, rightAssoc |-> FALSE]

getOperatorPrecedence(op) ==
    CASE op \in AssignOperators -> [prec |-> 0, rightAssoc |-> TRUE]
      [] op = "|" -> [prec |-> 1, rightAssoc |-> FALSE]
      [] op = "," -> [prec |-> 2, rightAssoc |-> FALSE]
      [] op = "as" -> [prec |-> 3, rightAssoc |-> TRUE]
      [] op = "//" -> [prec |-> 4, rightAssoc |-> TRUE]
      [] op = "or" -> [prec |-> 5, rightAssoc |-> FALSE]
      [] op = "and" -> [prec |-> 6, rightAssoc |-> FALSE]
      [] op \in {"==", "!="} -> [prec |-> 7, rightAssoc |-> FALSE]
      [] op \in {"<", ">", "<=", ">="} -> [prec |-> 8, rightAssoc |-> FALSE]
      [] op \in {"+", "-"} -> [prec |-> 9, rightAssoc |-> FALSE]
      [] op \in {"*", "/", "%"} -> [prec |-> 10, rightAssoc |-> FALSE]
      [] OTHER -> [prec |-> 0 - 1, rightAssoc |-> FALSE]

buildBinaryNode(op, left, right) ==
    CASE op = "|" -> Pipe(left, right)
      [] op = "," -> IF left.t = "Comma" THEN Comma(Append(left.exprs, right))
                     ELSE Comma(<<left, right>>)
      [] op = "//" -> Alternative(left, right)
      [] op \in AssignOperators -> Assign(left, op, right)
      [] OTHER -> BinaryOp(op, left, right)

Opening == {"(", "[", "{"}
Closing == {")", "]", "}"}

\* the index of the first token at which the depth, 1 before tokens[i],
\* returns to 0; 0 when there is none
RECURSIVE MatchFrom(_, _, _, _, _)
MatchFrom(tokens, i, depth, opens, closes) ==
    IF i > Len(tokens) THEN 0
    ELSE IF tokens[i] \in opens THEN MatchFrom(tokens, i + 1, depth + 1, opens, closes)
    ELSE IF tokens[i] \in closes THEN
        IF depth = 1 THEN i ELSE MatchFrom(tokens, i + 1, depth - 1, opens, closes)
    ELSE MatchFrom(tokens, i + 1, depth, opens, closes)

\* the loop of extractUntilKeyword and extractUntilKeywords: the index of
\* the first token that is one of the keywords while depth is 0; 0 when
\* there is none
RECURSIVE KeywordFrom(_, _, _, _)
KeywordFrom(tokens, i, depth, keywords) ==
    IF i > Len(tokens) THEN 0
    ELSE IF depth = 0 /\ tokens[i] \in keywords THEN i
    ELSE LET tok == tokens[i]
             d1 == IF tok \in {"if", "try"} THEN depth + 1
                   ELSE IF tok = "end" THEN depth - 1 ELSE depth
             d2 == IF tok \in Opening THEN d1 + 1
                   ELSE IF tok \in Closing THEN d1 - 1 ELSE d1
         IN  KeywordFrom(tokens, i + 1, d2, keywords)

extractUntilKeywords(tokens, keywords) ==
    LET i == KeywordFrom(tokens, 1, 0, keywords) IN
    IF i = 0 THEN [found |-> FALSE, before |-> <<>>, rest |-> <<>>, keyword |-> ""]
    ELSE [found |-> TRUE, before |-> SubSeq(tokens, 1, i - 1), rest |-> Drop(tokens, i - 1),
          keyword |-> tokens[i]]

extractUntilKeyword(tokens, keyword) == extractUntilKeywords(tokens, {keyword})

\* the parseNumber helper of parseBracketAccess: an optional - and a number
parseNumber(tokens) ==
    IF tokens = <<>> THEN [ok |-> FALSE, idx |-> 0, rest |-> tokens]
    ELSE IF Head(tokens) = "-" THEN
        IF Len(tokens) >= 2 /\ isTokenType(tokens[2], "Number")
        THEN [ok |-> TRUE, idx |-> 0 - ParseFloat(tokens[2]), rest |-> Drop(tokens, 2)]
        ELSE [ok |-> FALSE, idx |-> 0, rest |-> tokens]
    ELSE IF isTokenType(Head(tokens), "Number")
        THEN [ok |-> TRUE, idx |-> ParseFloat(Head(tokens)), rest |-> Tail(tokens)]
    ELSE [ok |-> FALSE, idx |-> 0, rest |-> tokens]

\* the loop of parseDestructurePattern, after the {
RECURSIVE PatternFrom(_, _)
PatternFrom(rest, bindings) ==
    IF rest = <<>> THEN [err |-> TRUE, bindings |-> bindings, rest |-> <<>>]
    ELSE IF Head(rest) = "}" THEN [err |-> FALSE, bindings |-> bindings, rest |-> Tail(rest)]
    ELSE IF ~isTokenType(rest[1], "Ident") \/ Len(rest) < 3 \/ rest[2] # ":"
            \/ ~isTokenType(rest[3], "Variable")
         THEN [err |-> TRUE, bindings |-> bindings, rest |-> <<>>]
    ELSE LET b == [f \in DOMAIN bindings \cup {rest[1]} |->
                      IF f = rest[1] THEN VarNameOf(rest[3]) ELSE bindings[f]]
             after == Drop(rest, 3)
         IN  PatternFrom(IF after # <<>> /\ Head(after) = "," THEN Tail(after) ELSE after, b)

parseDestructurePattern(tokens) ==
    IF tokens = <<>> \/ Head(tokens) # "{" THEN [err |-> TRUE, bindings |-> <<>>, rest |-> <<>>]
    ELSE PatternFrom(Tail(tokens), <<>>)

RECURSIVE parseExpressionTokens(_, _), OperatorLoop(_, _, _), parsePrimary(_),
          DotLoop(_, _), VariableLoop(_, _), parseBracketAccess(_, _),
          parseConditional(_), parseTryCatch(_)

\* the bracketed tokens are parsed as one expression; what is left of them
\* after that expression is dropped
parseParenExpr(tokens) ==
    LET rest == Tail(tokens)
        end == MatchFrom(rest, 1, 1, {"("}, {")"})
    IN  IF end = 0 THEN ParseError
        ELSE LET inner == parseExpressionTokens(SubSeq(rest, 1, end - 1), 0) IN
             IF inner.err THEN ParseError ELSE Parsed(inner.node, Drop(rest, end))

parseArrayConstruct(tokens) ==
    LET rest == Tail(tokens) IN
    IF rest # <<>> /\ Head(rest) = "]" THEN Parsed(ArrayConstruct(NilNode), Tail(rest))
    ELSE LET end == MatchFrom(rest, 1, 1, Opening, Closing) IN
         IF end = 0 THEN ParseError
         ELSE LET elements == parseExpressionTokens(SubSeq(rest, 1, end - 1), 0) IN
              IF elements.err THEN ParseError
              ELSE Parsed(ArrayConstruct(elements.node), Drop(rest, end))

parseBracketAccess(from, tokens) ==
    LET rest == Tail(tokens) IN
    IF rest = <<>> THEN ParseError
    ELSE IF Head(rest) = "]" THEN Parsed(Iterator(from), Tail(rest))
    ELSE LET start == parseNumber(rest) IN
         IF start.rest # <<>> /\ Head(start.rest) = ":" THEN
             LET end == parseNumber(Tail(start.rest)) IN
             IF end.rest = <<>> \/ Head(end.rest) # "]" THEN ParseError
             ELSE Parsed(Slice(from, IF start.ok THEN <<start.idx>> ELSE <<>>,
                               IF end.ok THEN <<end.idx>> ELSE <<>>), Tail(end.rest))
         ELSE IF start.ok THEN
             IF start.rest = <<>> \/ Head(start.rest) # "]" THEN ParseError
             ELSE Parsed(IndexAccess(from, start.idx), Tail(start.rest))
         ELSE LET indexExpr == parseExpressionTokens(start.rest, 0) IN
              IF indexExpr.err THEN ParseError
              ELSE IF indexExpr.rest = <<>> \/ Head(indexExpr.rest) # "]" THEN ParseError
              ELSE Parsed(DynamicIndex(from, indexExpr.node), Tail(indexExpr.rest))

\* the loop of parseDotExpression, after the first .
DotLoop(node, rest) ==
    IF rest = <<>> THEN Parsed(node, rest)
    ELSE LET tok == Head(rest) IN
         IF isTokenType(tok, "Ident") THEN DotLoop(FieldAccess(node, tok), Tail(rest))
         ELSE IF tok = "[" THEN
             LET r == parseBracketAccess(node, rest) IN
             IF r.err THEN ParseError ELSE DotLoop(r.node, r.rest)
         ELSE IF tok = "." THEN
             IF Len(rest) = 1 THEN ParseError
             ELSE IF isTokenType(rest[2], "Ident")
                  THEN DotLoop(FieldAccess(node, rest[2]), Drop(rest, 2))
             ELSE IF rest[2] = "[" THEN
                  LET r == parseBracketAccess(node, Tail(rest)) IN
                  IF r.err THEN ParseError ELSE DotLoop(r.node, r.rest)
             ELSE ParseError
         ELSE IF tok = "?" THEN DotLoop(Optional(node), Tail(rest))
         ELSE Parsed(node, rest)

parseDotExpression(tokens) == DotLoop(Identity, Tail(tokens))

\* the loop of parsePrimary after a variable: $x.a, $x.[0]
VariableLoop(node, rest) ==
    IF rest = <<>> \/ Head(rest) # "." THEN Parsed(node, rest)
    ELSE IF Len(rest) = 1 THEN ParseError
    ELSE IF isTokenType(rest[2], "Ident")
         THEN VariableLoop(FieldAccess(node, rest[2]), Drop(rest, 2))
    ELSE IF rest[2] = "[" THEN
         LET r == parseBracketAccess(node, Tail(rest)) IN
         IF r.err THEN ParseError ELSE VariableLoop(r.node, r.rest)
    ELSE ParseError

parseConditional(tokens) ==
    LET c == extractUntilKeyword(tokens, "then") IN
    IF ~c.found THEN ParseError
    ELSE LET cond == parseExpressionTokens(c.before, 0) IN
         IF cond.err THEN ParseError
         ELSE LET th == extractUntilKeywords(Tail(c.rest), {"elif", "else", "end"}) IN
              IF ~th.found THEN ParseError
              ELSE LET thenExpr == parseExpressionTokens(th.before, 0)
                       rest == Tail(th.rest)
                   IN  IF thenExpr.err THEN ParseError
                       ELSE IF th.keyword = "elif" THEN
                           LET elseExpr == parseConditional(rest) IN
                           IF elseExpr.err THEN ParseError
                           ELSE Parsed(Conditional(cond.node, thenExpr.node, elseExpr.node),
                                       elseExpr.rest)
                       ELSE IF th.keyword = "else" THEN
                           LET el == extractUntilKeyword(rest, "end") IN
                           IF ~el.found THEN ParseError
                           ELSE LET elseExpr == parseExpressionTokens(el.before, 0) IN
                                IF elseExpr.err THEN ParseError
                                ELSE Parsed(Conditional(cond.node, thenExpr.node, elseExpr.node),
                                            Tail(el.rest))
                       ELSE Parsed(Conditional(cond.node, thenExpr.node, Identity), rest)

parseTryCatch(tokens) ==
    LET t == extractUntilKeywords(tokens, {"catch"}) IN
    IF ~t.found THEN
        LET tryExpr == parseExpressionTokens(tokens, 0) IN
        IF tryExpr.err THEN ParseError ELSE Parsed(TryCatch(tryExpr.node, NilNode), tryExpr.rest)
    ELSE LET tryExpr == parseExpressionTokens(t.before, 0) IN
         IF tryExpr.err THEN ParseError
         ELSE LET catchExpr == parseExpressionTokens(Tail(t.rest), 0) IN
              IF catchExpr.err THEN ParseError
              ELSE Parsed(TryCatch(tryExpr.node, catchExpr.node), catchExpr.rest)

\* the tokens between the brackets are the arguments; they are split at
\* each ; outside brackets, a token that is not in the alphabet
parseFunctionCall(name, tokens) ==
    LET rest == Tail(tokens)
        end == MatchFrom(rest, 1, 1, {"("}, {")"})
    IN  IF end = 0 THEN ParseError
        ELSE IF end = 1 THEN Parsed(FunctionCall(name, <<>>), Drop(rest, end))
        ELSE LET arg == parseExpressionTokens(SubSeq(rest, 1, end - 1), 0) IN
             IF arg.err THEN ParseError
             ELSE Parsed(FunctionCall(name, <<arg.node>>), Drop(rest, end))

parseFunctionOrKeyword(tokens) ==
    LET name == Head(tokens)
        rest == Tail(tokens)
    IN  CASE name = "if" -> parseConditional(rest)
          [] name = "try" -> parseTryCatch(rest)
          [] name = "empty" -> Parsed(FunctionCall("empty", <<>>), rest)
          [] name = "not" ->
                IF rest = <<>> \/ Head(rest) \in {"|", ")", "]", "}", ",", ";"}
                THEN Parsed(FunctionCall("not", <<>>), rest)
                ELSE LET e == parsePrimary(rest) IN
                     IF e.err THEN ParseError ELSE Parsed(UnaryOp("not", e.node), e.rest)
          [] OTHER -> IF rest # <<>> /\ Head(rest) = "(" THEN parseFunctionCall(name, rest)
                      ELSE Parsed(FunctionCall(name, <<>>), rest)

parsePrimary(tokens) ==
    IF tokens = <<>> THEN ParseError
    ELSE LET tok == Head(tokens) IN
         CASE tok = "." -> parseDotExpression(tokens)
           [] tok = "(" -> parseParenExpr(tokens)
           [] tok = "[" -> parseArrayConstruct(tokens)
           [] isTokenType(tok, "Number") -> Parsed(Literal(Num(ParseFloat(tok))), Tail(tokens))
           [] tok = "-" ->
                 IF Len(tokens) = 1 THEN ParseError
                 ELSE LET operand == parsePrimary(Tail(tokens)) IN
                      IF operand.err THEN ParseError
                      ELSE Parsed(UnaryOp("-", operand.node), operand.rest)
           [] tok = "true" -> Parsed(Literal(Bool(TRUE)), Tail(tokens))
           [] tok = "false" -> Parsed(Literal(Bool(FALSE)), Tail(tokens))
           [] tok = "null" -> Parsed(Literal(Null), Tail(tokens))
           [] isTokenType(tok, "Variable") ->
                 VariableLoop(Variable(VarNameOf(tok)), Tail(tokens))
           [] isTokenType(tok, "Ident") \/ isTokenType(tok, "Keyword") ->
                 parseFunctionOrKeyword(tokens)
           [] OTHER -> ParseError

\* the loop of parseExpressionTokens: the operators that follow left
OperatorLoop(left, rest, minPrec) ==
    IF rest = <<>> THEN Parsed(left, rest)
    ELSE LET tokVal == Head(rest)
             op == getOperatorPrecedence(tokVal)
         IN
         IF op.prec < minPrec THEN Parsed(left, rest)
         ELSE IF tokVal = "as" THEN
             LET after == Tail(rest) IN
             IF after = <<>> THEN ParseError
             ELSE IF isTokenType(Head(after), "Variable") THEN
                 IF Len(after) = 1 \/ after[2] # "|" THEN ParseError
                 ELSE LET body == parseExpressionTokens(Drop(after, 2), 0) IN
                      IF body.err THEN ParseError
                      ELSE OperatorLoop(VariableBind(left, VarNameOf(Head(after)), body.node),
                                        body.rest, minPrec)
             ELSE IF Head(after) = "{" THEN
                 LET pat == parseDestructurePattern(after) IN
                 IF pat.err \/ pat.rest = <<>> \/ Head(pat.rest) # "|" THEN ParseError
                 ELSE LET body == parseExpressionTokens(Tail(pat.rest), 0) IN
                      IF body.err THEN ParseError
                      ELSE OperatorLoop(DestructureBind(left, pat.bindings, body.node),
                                        body.rest, minPrec)
             ELSE ParseError
         ELSE LET right == parseExpressionTokens(Tail(rest),
                                                 IF op.rightAssoc THEN op.prec ELSE op.prec + 1)
              IN  IF right.err THEN ParseError
                  ELSE OperatorLoop(buildBinaryNode(tokVal, left, right.node), right.rest, minPrec)

parseExpressionTokens(tokens, minPrec) ==
    LET left == parsePrimary(tokens) IN
    IF left.err THEN ParseError ELSE OperatorLoop(left.node, left.rest, minPrec)

\* parseExpression: what parseExpressionTokens leaves unparsed is dropped
parseExpression(tokens, minPrec) ==
    LET r == parseExpressionTokens(tokens, minPrec) IN
    IF r.err THEN [node |-> NilNode, err |-> TRUE] ELSE [node |-> r.node, err |-> FALSE]

\* Parse, from the token sequence on
Parse(tokens) ==
    IF tokens = <<>> THEN [node |-> NilNode, err |-> TRUE] ELSE parseExpression(tokens, 0)

(***************************************************************************)
(* Parse as a state machine: Parse is called once on one token sequence.   *)
(* input is the token sequence, expr the expression tree the sequence is   *)
(* written to denote (NilNode where none is given), result what Parse      *)
(* returns.                                                                *)
(***************************************************************************)
MaxOps == 3      \* most operators in a chain  atom op atom op ... atom
MaxTokens == 4   \* longest sequence of arbitrary tokens

Case(toks, ast) == [toks |-> toks, ast |-> ast]

\* one operator of every level and associativity of the precedence table
ChainOps == {"=", "+=", "|", ",", "//", "or", "and", "==", "<", "+", "-", "*"}

RECURSIVE OpSeqs(_)
OpSeqs(k) == IF k = 0 THEN {<<>>}
             ELSE {Append(s, op) : s \in OpSeqs(k - 1), op \in ChainOps}

\* 1 ops[1] 2 ops[2] 3 ...
RECURSIVE ChainTokens(_)
ChainTokens(ops) ==
    IF ops = <<>> THEN <<Digits[1]>>
    ELSE ChainTokens(SubSeq(ops, 1, Len(ops) - 1)) \o <<ops[Len(ops)], Digits[Len(ops) + 1]>>

\* the precedence table (levels and the levels that group right-to-left)
Level(op) ==
    CASE op \in {"=", "|=", "+=", "-=", "*=", "//="} -> 0
      [] op = "|" -> 1
      [] op = "," -> 2
      [] op = "//" -> 4
      [] op = "or" -> 5
      [] op = "and" -> 6
      [] op \in {"==", "!="} -> 7
      [] op \in {"<", ">", "<=", ">="} -> 8
      [] op \in {"+", "-"} -> 9
      [] op \in {"*", "/", "%"} -> 10
RightToLeft(op) == Level(op) \in {0, 4}

\* the tree of the chain  lo ops[lo] lo+1 ... ops[hi-1] hi : it is split at
\* the operator that binds loosest, the last such one when the level groups
\* left-to-right and the first when it groups right-to-left
RECURSIVE Grouped(_, _, _)
Grouped(ops, lo, hi) ==
    IF lo = hi THEN Literal(Num(lo))
    ELSE LET low == CHOOSE l \in 0..10 :
                       /\ \E i \in lo..(hi - 1) : Level(ops[i]) = l
                       /\ \A i \in lo..(hi - 1) : Level(ops[i]) >= l
             at == {i \in lo..(hi - 1) : Level(ops[i]) = low}
             split == CHOOSE i \in at :
                         \A j \in at : IF RightToLeft(ops[i]) THEN i <= j ELSE i >= j
         IN  buildBinaryNode(ops[split], Grouped(ops, lo, split), Grouped(ops, split + 1, hi))

ChainOf(ops) == Case(ChainTokens(ops), Grouped(ops, 1, Len(ops) + 1))
ChainCases == UNION {{ChainOf(ops) : ops \in OpSeqs(k)} : k \in 1..MaxOps}

\* arbitrary sequences of numbers, operators and round brackets
SeqAlphabet == {"1", "+", ",", "(", ")"}
RECURSIVE TokenSeqs(_)
TokenSeqs(k) == IF k = 0 THEN {<<>>}
                ELSE {Append(s, tok) : s \in TokenSeqs(k - 1), tok \in SeqAlphabet}
SeqCases == UNION {{Case(s, NilNode) : s \in TokenSeqs(k)} : k \in 1..MaxTokens}

\* forms whose tree is known, and the keyword forms built from them
Atom(i) == Case(<<Digits[i]>>, Literal(Num(i)))
InRound(f) == Case(<<"(">> \o f.toks \o <<")">>, f.ast)
InSquare(f) == Case(<<"[">> \o f.toks \o <<"]">>, ArrayConstruct(f.ast))
IfForm(c, th, el) ==
    Case(<<"if">> \o c.toks \o <<"then">> \o th.toks \o <<"else">> \o el.toks \o <<"end">>,
         Conditional(c.ast, th.ast, el.ast))
TryForm(b) == Case(<<"try">> \o b.toks, TryCatch(b.ast, NilNode))
TryCatchForm(b, h) == Case(<<"try">> \o b.toks \o <<"catch">> \o h.toks, TryCatch(b.ast, h.ast))

NestedForms ==
    {Atom(1), InRound(Atom(1)),
     IfForm(Atom(1), Atom(2), Atom(3)),
     InRound(IfForm(Atom(1), Atom(2), Atom(3))),
     InSquare(IfForm(Atom(1), Atom(2), Atom(3))),
     TryCatchForm(Atom(1), Atom(2)),
     InRound(TryCatchForm(Atom(1), Atom(2))),
     InSquare(TryCatchForm(Atom(1), Atom(2))),
     InRound(TryForm(Atom(1)))}
KeywordCases ==
    {IfForm(c, th, el) : c \in NestedForms, th \in NestedForms, el \in NestedForms}
    \cup {TryCatchForm(b, Atom(4)) : b \in NestedForms}

\* try as an operand of , | +
TryOperators == {",", "|", "+"}
TryOperandCases ==
    {Case(TryForm(Atom(1)).toks \o <<op, "2">>,
          buildBinaryNode(op, TryForm(Atom(1)).ast, Literal(Num(2)))) : op \in TryOperators}
    \cup {Case(TryCatchForm(Atom(1), Atom(2)).toks \o <<op, "3">>,
               buildBinaryNode(op, TryCatchForm(Atom(1), Atom(2)).ast, Literal(Num(3)))) :
            op \in TryOperators}
    \cup {Case(<<"4", op>> \o TryCatchForm(Atom(1), Atom(2)).toks \o <<op, "3">>,
               buildBinaryNode(op, buildBinaryNode(op, Literal(Num(4)),
                                                   TryCatchForm(Atom(1), Atom(2)).ast),
                               Literal(Num(3)))) : op \in TryOperators}
    \cup {Case(<<"4", op>> \o TryCatchForm(Atom(1), Atom(2)).toks,
               buildBinaryNode(op, Literal(Num(4)), TryCatchForm(Atom(1), Atom(2)).ast)) :
            op \in TryOperators}

ParseCases == ChainCases \cup SeqCases \cup KeywordCases \cup TryOperandCases

NoParse == [node |-> NilNode, err |-> FALSE]

InitParse ==
    /\ pc = "parse"
    /\ \E c \in ParseCases : input = c.toks /\ expr = c.ast
    /\ mapOrder = SortedKeys
    /\ result = NoParse
    /\ heap = NoHeap /\ root = Null /\ cur = Null /\ root0 = Null /\ steps = <<>>

ParseStep ==
    /\ pc = "parse"
    /\ result' = Parse(input)
    /\ pc' = "parsed"
    /\ UNCHANGED <<expr, input, mapOrder, heap, root, cur, root0, steps>>

NextParse == ParseStep

SpecParse == InitParse /\ [][NextParse]_vars

ParseDone == pc = "parsed"
\* input is  1 op 2 op 3 ...  with operators of ChainOps
IsChain ==
    /\ Len(input) >= 3 /\ Len(input) % 2 = 1
    /\ \A i \in 1..Len(input) :
          IF i % 2 = 1 THEN (i + 1) \div 2 <= Len(Digits) /\ input[i] = Digits[(i + 1) \div 2]
          ELSE input[i] \in ChainOps

\* C22: an unparenthesised chain of binary operators is parsed to the tree
\* in which an operator of a higher level of the precedence table binds
\* tighter than one of a lower level, operators of one level group
\* left-to-right, and // and the assignment operators group right-to-left.
C22_ChainFollowsPrecedence ==
    (ParseDone /\ IsChain) => (~result.err /\ result.node = expr)

\* 1 // 2 // 3 * 4 has been parsed: right-to-left grouping and a tighter
\* operator on the right
C22_MixedChainParsed ==
    /\ ParseDone /\ ~result.err
    /\ input = <<"1", "//", "2", "//", "3", "*", "4">>
    /\ result.node = Alternative(Literal(Num(1)),
                         Alternative(Literal(Num(2)),
                                     BinaryOp("*", Literal(Num(3)), Literal(Num(4)))))

\* the sequences over SeqAlphabet that are one complete expression:
\* E ::= 1 | ( E ) | E + E | E , E
RECURSIVE IsExpression(_)
IsExpression(toks) ==
    \/ toks = <<"1">>
    \/ /\ Len(toks) >= 3 /\ toks[1] = "(" /\ toks[Len(toks)] = ")"
       /\ IsExpression(SubSeq(toks, 2, Len(toks) - 1))
    \/ \E i \in 2..(Len(toks) - 1) :
          /\ toks[i] \in {"+", ","}
          /\ IsExpression(SubSeq(toks, 1, i - 1))
          /\ IsExpression(SubSeq(toks, i + 1, Len(toks)))

IsTokenSeq == \A i \in 1..Len(input) : input[i] \in SeqAlphabet

\* C23: Parse returns an error for every token sequence that is not exactly
\* one complete expression (an unmatched or stray bracket, a token that
\* cannot continue the expression): no token is ignored.
C23_IncompleteIsError ==
    (ParseDone /\ IsTokenSeq /\ ~IsExpression(input)) => result.err

\* C24: the then, else and end of an if, and the catch of a try, are found
\* as the construct's own keywords: an if or try whose condition, branches
\* or body are themselves an if ... end or a try, bare or inside ( ) or
\* [ ], is parsed to the tree in which each keyword belongs to its own
\* construct.
C24_OwnKeywordSelected ==
    (ParseDone /\ Case(input, expr) \in KeywordCases) => (~result.err /\ result.node = expr)

\* C29: a try used as an operand of , | + leaves the operators that follow
\* it to the enclosing expression: they apply to the whole try expression.
C29_TryLeavesOperators ==
    (ParseDone /\ Case(input, expr) \in TryOperandCases) =>
        (~result.err /\ result.node = expr)

====
